---- MODULE Spec2Model ----
(***************************************************************************)
(* Model of buildtool.py: the dependency graph engine of an incremental    *)
(* C/C++ build driver.  One process of the tool is modelled: the files on  *)
(* disk (sources, headers, info files, module interfaces, outputs), the    *)
(* process-wide registries (SourceFile.files, HeaderDep, CompiledModule),  *)
(* the Targets, and the call stack of the recursive graph walk.            *)
(*                                                                         *)
(* A path is a record [stem, suffix] (all files of the model live in the   *)
(* source root); a module name is the sequence of its dot-separated        *)
(* components.  Timestamps are natural numbers; 0 is the mtime Path.mtime  *)
(* reports for a file that does not exist.                                 *)
(***************************************************************************)
EXTENDS Naturals, Integers, Sequences, FiniteSets, TLC

VARIABLES
    srcMtime,      \* disk: mtime of each source file
    hdrMtime,      \* disk: mtime of each header
    info,          \* disk: the info file of each source (InfoRecord)
    cmDisk,        \* disk: sha256 of each module's interface file
    objMtime,      \* disk: mtime of each object file (0: absent)
    ofileMtime,    \* disk: mtime of each target's output file (0: absent)
    THIS_MTIME,    \* module global THIS_MTIME
    nTargets,      \* how many Targets the build script of this process builds
    entryPoints,   \* the source files the build script names as entry points
    tick,          \* how far the clock advances while a compiler runs
    files,         \* SourceFile.files: one record per path
    hdrBuilt,      \* HeaderDep.built of the interned HeaderDep of each header
    cmhash,        \* CompiledModule.cmhash of each module ("None": not built)
    tgt,           \* the Target objects
    stack,         \* the call stack of the graph walk (innermost frame last)
    running,       \* sources whose compiler subprocess is alive
    status,        \* "ok", "crashed" (uncaught exception) or "exited" (exit())
    error,         \* the exception that ended the process, "" if none
    exitCode,      \* the exit status of the process once it has ended
    now,           \* time.time()
    compileCount,  \* history: compiler invocations per source in this process
    imported,      \* history: MODULE-IMPORT requests received per source
    info0,         \* history: the info files as they were when the process started
    cm0,           \* history: the interface hashes as they were when the process started
    linked,        \* history: per target, what Target.link saw and decided
    compilerCode,  \* history: the non-zero exit code a compiler ended with, 0 if none
    fsFinal,       \* disk, byte level: how much of its document each JSON file holds
    fsTmp,         \* disk, byte level: the same for each "<path>.tmp"
    writer,        \* the write the process is in the middle of
    batch,         \* compile_gcc's locals: the batch of requests last handled
    warnings,      \* history: how many times warn("unknown command") was called
    wire,          \* compile_gcc's pipes: the lines of the batch being read (pending),
                   \* what the driver wrote since the last line it read (sent),
                   \* and whether it has read EOF (eof)
    demand,        \* history: the last call the build script made of SourceFile.get
                   \* or Target.compile, with the record its path had before
    scan,          \* history: the last call of SourceFile.clang_get_deps, with what
                   \* the scanner gave and what the call did
    iface,         \* per module name: how the record of its source was first
                   \* registered, the record's cmpath, the interface file the
                   \* compiler was told to write and the file that was hashed
    lookup,        \* the tree a header is looked up in (fs), and history: the last
                   \* call of HeaderDep.find_cpp on it with what it gave
    resolve        \* the module sources on disk (fs), and history: the last call the
                   \* build script made of Target.mod2src with what it gave

diskVars == <<srcMtime, hdrMtime, info, cmDisk, objMtime, ofileMtime>>
scriptVars == <<THIS_MTIME, nTargets, entryPoints, tick>>
memVars  == <<scriptVars, files, hdrBuilt, cmhash, tgt, stack, running, status, error,
              exitCode, now>>
histVars == <<compileCount, imported, info0, cm0, linked, compilerCode>>
ioVars   == <<fsFinal, fsTmp, writer>>
dlgVars  == <<batch, warnings, wire>>
regVars  == <<demand, resolve, lookup, scan, iface>>
vars     == <<diskVars, memVars, histVars, ioVars, dlgVars, regVars>>

----------------------------------------------------------------------------
(* Bounds and universes *)

\* largest mtime a file on disk has when the process starts
MaxTime == 2
\* number of Targets the build script builds, one after the other
MaxTargets == 2
\* number of pieces in which a document reaches the disk
DocChunks == 2
\* largest number of requests the compiler sends in one batch
MaxBatch == 2
\* largest number of unknown-command warnings followed
MaxWarnings == 2

P(stem, suffix) == [stem |-> stem, suffix |-> suffix]

\* "no path" (Python's None where a path is expected) and "no module"
NoPath   == P("", "")
NoModule == <<>>

MainCC == P("main", ".cc")
GENH   == P("gen", ".h")
HCC    == P("h", ".cc")
MCC    == P("m", ".cc")
CC     == P("c", ".c")
YCPP   == P("y", ".cpp")
AS     == P("a", ".s")
BS     == P("b", ".S")
NOEXT  == P("noext", "")
TXT    == P("x", ".txt")
HH     == P("h", ".h")

\* the files that exist in the source root and that a build script may name
Sources == {MainCC, HCC, MCC, CC, YCPP, AS, BS, NOEXT, TXT, GENH}
\* the C++ sources among them
CxxSources == {MainCC, HCC, MCC}
\* the headers a compiler may name in INCLUDE-TRANSLATE
Headers == {HH}
\* the module names a compiler may import
Modules == {<<"m">>}
\* interface-file contents, by their sha256
Hashes  == {"A", "B"}
Targets == 1..MaxTargets
ExitCodes == {0, 1, 2}

CCFILE_SUFFIXES == {".cc", ".cpp"}
HFILE_SUFFIXES  == {".h", ".hpp", ".hh"}

Max(a, b) == IF a >= b THEN a ELSE b

----------------------------------------------------------------------------
(* Typed dependencies, as update() writes them and check_up_to_date reads them *)

IncludeDep(h)     == [kind |-> "include", name |-> h, sha256 |-> ""]
ModuleDep(m, sha) == [kind |-> "module", name |-> m, sha256 |-> sha]
FileDep(p)        == [kind |-> "file", name |-> p, sha256 |-> ""]
\* an entry of data['deps'] with none of the three prefixes
UnknownDep(p)     == [kind |-> "unknown", name |-> p, sha256 |-> ""]

----------------------------------------------------------------------------
(* Pure helpers *)

\* mod2path for a named module: dots become slashes, ".cc" is appended; the
\* model's modules have one component, so the path is <name>.cc in the root.
mod2path(m) == P(m[Len(m)], ".cc")

\* Target.mod2src, first probe: SRCDIR / mod2path(name), if it exists.
mod2src(m) == IF mod2path(m) \in Sources THEN mod2path(m) ELSE NoPath

\* a path below the source root: the directory as its components, then the
\* file; a file in the root itself is the plain P(stem, suffix)
InDir(dir, p) ==
    IF dir = <<>> THEN p ELSE [dir |-> dir, stem |-> p.stem, suffix |-> p.suffix]

IsSeparator(piece) == piece \in {".", ":"}
IsComponent(piece) == ~IsSeparator(piece)

\* mod2path for any named module, the name given by its pieces: '.' and ':'
\* both become '/', ".cc" is appended
mod2path_named(name) ==
    LET parts == SelectSeq(name, IsComponent)
    IN  InDir(SubSeq(parts, 1, Len(parts) - 1), P(parts[Len(parts)], ".cc"))

\* module globals SRCDIR (".") and INCFLAGS, each flag as <<prefix, directory>>
SRCDIR == <<>>
INCFLAGS == << <<"-I", "inc">>, <<"-iquote", "q">> >>

\* Target.mod2src, "[SRCDIR, *INCFLAGS]" with removeprefix("-I") and
\* removeprefix("-iquote"): the directories searched, in order
SearchPath == <<SRCDIR>> \o [i \in DOMAIN INCFLAGS |-> Tail(INCFLAGS[i])]

\* base_path / path
Under(base, path) ==
    IF "dir" \in DOMAIN path THEN InDir(base \o path.dir, P(path.stem, path.suffix))
    ELSE InDir(base, path)

\* no result
NoResolve == [fs |-> {}, name |-> NoModule, path |-> NoPath, failed |-> <<>>]

\* Target.mod2src, the loop over the search path from its i-th directory on,
\* on a disk where the files fs exist.  A found first candidate is returned.
\* Otherwise it goes to failed and the second candidate is computed as
\* full_path.parent / full_path.stem / full_path.name: class Path has no
\* attribute stem, so the method ends there with AttributeError, whatever is
\* on disk.  The exit(1) after the loop is reached when the search path is
\* used up.
RECURSIVE Target_mod2src(_, _, _, _)
Target_mod2src(name, fs, i, failed) ==
    IF i > Len(SearchPath)
    THEN [path |-> NoPath, error |-> "exit", failed |-> failed]
    ELSE LET full_path == Under(SearchPath[i], mod2path_named(name))
         IN  IF full_path \in fs
             THEN [path |-> full_path, error |-> "", failed |-> failed]
             ELSE [path |-> NoPath, error |-> "AttributeError",
                   failed |-> Append(failed, full_path)]

\* the module a source file defines (the inverse of mod2src), NoModule otherwise
ModOf(f) == IF \E m \in Modules : mod2src(m) = f
            THEN CHOOSE m \in Modules : mod2src(m) = f
            ELSE NoModule

\* HeaderDep.find_cpp, sibling case: the header's path with its suffix
\* replaced by .cc, .cpp, .c in that order; the first that exists.
find_cpp(h) ==
    IF h.suffix \notin HFILE_SUFFIXES THEN NoPath
    ELSE IF P(h.stem, ".cc") \in Sources THEN P(h.stem, ".cc")
    ELSE IF P(h.stem, ".cpp") \in Sources THEN P(h.stem, ".cpp")
    ELSE IF P(h.stem, ".c") \in Sources THEN P(h.stem, ".c")
    ELSE NoPath

\* A path of several components: the directories it lies in, outermost
\* first, and the stem and suffix of its name.
FP(dir, stem, suffix) == [dir |-> dir, stem |-> stem, suffix |-> suffix]

\* find_cpp's result None
NoFP == FP(<<>>, "", "")

\* A file tree: the files in it and the directories that hold no file.
\* Path.is_dir: the directory was made, or a file lies in it or below it.
is_dir(dir, fs) ==
    \/ dir \in fs.dirs
    \/ \E q \in fs.files \cup {FP(d, "", "") : d \in fs.dirs} :
           Len(q.dir) >= Len(dir) /\ SubSeq(q.dir, 1, Len(dir)) = dir

\* list.index: the first position of x in parts
IndexOf(parts, x) == CHOOSE i \in DOMAIN parts : parts[i] = x /\ \A j \in 1..(i - 1) : parts[j] # x

\* list.pop(i)
Pop(parts, i) == SubSeq(parts, 1, i - 1) \o SubSeq(parts, i + 1, Len(parts))

\* HeaderDep.find_cpp(hfile) in the tree fs: the sibling .cc, .cpp or .c,
\* first that exists; else, for a header below a directory "include", the
\* same search with "src" in its place when that directory exists, and only
\* when it does not, for project/include/project/file.h, the search for
\* project/src/file.h; else the same with "Inc" and "Src".  hfile.parts ends
\* with the file's name, so positions count one more than in hfile.dir.
RECURSIVE find_cpp_in(_, _)
find_cpp_in(hfile, fs) ==
    IF hfile.suffix \notin HFILE_SUFFIXES THEN NoFP
    ELSE IF [hfile EXCEPT !.suffix = ".cc"] \in fs.files THEN [hfile EXCEPT !.suffix = ".cc"]
    ELSE IF [hfile EXCEPT !.suffix = ".cpp"] \in fs.files THEN [hfile EXCEPT !.suffix = ".cpp"]
    ELSE IF [hfile EXCEPT !.suffix = ".c"] \in fs.files THEN [hfile EXCEPT !.suffix = ".c"]
    ELSE LET inc == \E i \in DOMAIN hfile.dir : hfile.dir[i] = "include"
             i == IndexOf(hfile.dir, "include")
             parts == [hfile.dir EXCEPT ![i] = "src"]
             Inc == \E k \in DOMAIN hfile.dir : hfile.dir[k] = "Inc"
             Src == [hfile.dir EXCEPT ![IndexOf(hfile.dir, "Inc")] = "Src"]
         IN  IF inc /\ is_dir(parts, fs)
             THEN find_cpp_in([hfile EXCEPT !.dir = parts], fs)
             ELSE IF inc /\ i > 1 /\ i < Len(parts) /\ parts[i - 1] = parts[i + 1]
             THEN find_cpp_in([hfile EXCEPT !.dir = Pop(parts, i + 1)], fs)
             ELSE IF Inc /\ is_dir(Src, fs)
             THEN find_cpp_in([hfile EXCEPT !.dir = Src], fs)
             ELSE NoFP

\* no scanner call made yet
NoScan == [path |-> NoPath, code |-> 0, named |-> {}, requires |-> {}, runs |-> 0,
           built |-> {}]

\* SourceFile.clang_get_deps, given the exit code of the first scanner run,
\* the headers its "not known to be a header unit" diagnostics name and the
\* modules its P1689 output requires: how many times the scanner was run,
\* the header units built, and the exception that escapes ("" if none).
\* After a failed first run the loop over the diagnostics calls
\* mod.build(target, cfg) for the first header named, one argument more than
\* CompiledModule.build(self, target) takes; with no header named,
\* self.compiler_cmd_clang(extra_args=extra_args) is called without its cfg.
\* Either way the second subprocess.run is not reached.  After a first run
\* that succeeds, each required module is built by the same
\* mod.build(target, cfg).
clang_get_deps(code, named, requires) ==
    IF code # 0
    THEN IF named # {}
         THEN [runs |-> 1, built |-> {}, err |-> "TypeError"]
         ELSE [runs |-> 1, built |-> {}, err |-> "TypeError"]
    ELSE IF requires # {}
         THEN [runs |-> 1, built |-> {}, err |-> "TypeError"]
         ELSE [runs |-> 1, built |-> {}, err |-> ""]

\* nothing looked up yet, in an empty tree
NoLookup == [fs |-> [files |-> {}, dirs |-> {}], hfile |-> NoFP, cpp |-> NoFP]

\* the strings s for which Python's  s in ('.c')  holds: ('.c') is the string
\* '.c', not a tuple, so the test is a substring test
SubstringsOfDotC == {"", ".", "c", ".c"}

\* Target.compile's type inference from the suffix
InferType(path) ==
    IF path.suffix \in CCFILE_SUFFIXES THEN "c++"
    ELSE IF path.suffix \in SubstringsOfDotC THEN "c"
    ELSE IF path.suffix \in {".S", ".s"} THEN "asm"
    ELSE "unrecognized"

\* SourceFile.compiler_cmd (GCC): the argument list, for the one BuildConfig
\* of the process
compiler_cmd(f) ==
    IF InferType(f) \in {"c", "asm"}
    THEN <<"g++", "CFLAGS", "-MD", "-MF", P(f.stem, ".make"), "-o", P(f.stem, ".o"), "-c", f>>
    ELSE <<"g++", "-fmodules-ts", "CXXFLAGS", "-o", P(f.stem, ".o"), "-c", f>>

\* SourceType, the three header types
HeaderTypes == {"system header", "user header", "generated header"}

\* SourceFile.compiler_cmd (GCC) of a record of the given type: a header
\* type gets its own flags and no "-o"
compiler_cmd_of(f, type) ==
    IF type = "system header"
    THEN <<"g++", "-fmodules-ts", "-fmodule-header=system", "-I.", "CXXFLAGS", "-c", f>>
    ELSE IF type = "user header"
    THEN <<"g++", "-fmodules-ts", "-fmodule-header=user", "-iquote.", "CXXFLAGS", "-c", f>>
    ELSE IF type = "generated header"
    THEN <<"g++", "-c", f>>
    ELSE compiler_cmd(f)

\* an argument list an earlier run with other flags stored
OtherCmd(f) == <<"g++", "OLDFLAGS", "-o", P(f.stem, ".o"), "-c", f>>

----------------------------------------------------------------------------
(* Info files *)

AbsentInfo == [state |-> "absent", mtime |-> 0, command |-> <<>>, deps |-> {}]
CorruptInfo(t) == [state |-> "corrupt", mtime |-> t, command |-> <<>>, deps |-> {}]
OkInfo(t, c, d) == [state |-> "ok", mtime |-> t, command |-> c, deps |-> d]

----------------------------------------------------------------------------
(* SourceFile records *)

\* SourceFile.__init__: the record of a path that was never demanded.
\* need_recompile does not exist until check_up_to_date sets it ("unset").
NewFile == [registered |-> FALSE, type |-> "None", modname |-> NoModule, mtime |-> 0,
            processed |-> FALSE, up_to_date |-> "None", need_recompile |-> "unset",
            deps |-> {}, header_deps |-> {}, output_mtime |-> 0]

\* no call made yet
NoDemand == [via |-> "none", path |-> NoPath, type |-> "None", modname |-> NoModule,
             old |-> NewFile]

\* SourceFile.__init__, last lines: the type of a record created without one
SourceFile_init_type(f, type) ==
    IF type # "None" THEN type
    ELSE IF f.suffix \in CCFILE_SUFFIXES THEN "c++"
    ELSE IF f.suffix = ".c" THEN "c"
    ELSE "unrecognized"

\* SourceFile.get: the exception it raises, "" if none.  An existing record is
\* compared with the arguments only where both hold a value.
SourceFile_get_error(F, f, type, modname) ==
    IF F[f].registered
    THEN IF type # "None" /\ F[f].type # "None" /\ type # F[f].type
         THEN "Exception: type mismatch"
         ELSE IF modname # NoModule /\ F[f].modname # NoModule /\ modname # F[f].modname
         THEN "Exception: modname mismatch"
         ELSE ""
    ELSE IF SourceFile_init_type(f, type) = "unrecognized"
         THEN "Exception: Unrecognized file type"
         ELSE ""

\* SourceFile.get: the interned record, created on first reference with the
\* source mtime taken at that moment.
SourceFile_get(F, f, type, modname) ==
    IF F[f].registered THEN F[f]
    ELSE [NewFile EXCEPT !.registered = TRUE, !.type = SourceFile_init_type(f, type),
                         !.modname = modname, !.mtime = srcMtime[f]]

\* check_up_to_date, first test: the source is not older than the info file
\* (an absent info file has mtime 0).
SourceNewer(r, infofile_mtime) == r.mtime >= infofile_mtime

\* DepForcesRecompile with the header comparison the wrong way round
DepForcesRecompile_inverted(d, infofile_mtime) ==
    d.kind = "include" /\ hdrMtime[d.name] <= infofile_mtime

\* DepForcesRecompile with every recorded module dep forcing a rebuild
DepForcesRecompile_module(d, infofile_mtime) ==
    \/ d.kind = "module"
    \/ d.kind = "include" /\ hdrMtime[d.name] >= infofile_mtime

\* check_up_to_date, the loop over data['deps']: the deps that set
\* need_recompile.  Only an include: dep does, when the header is not older
\* than the info file; a module: dep is only recorded.
DepForcesRecompile(d, infofile_mtime) ==
    d.kind = "include" /\ hdrMtime[d.name] >= infofile_mtime

\* the loop over data['deps'] with an entry of unknown prefix skipped
DepLoopError_skipping(deps) ==
    IF \E d \in deps : d.kind = "file" THEN "AttributeError" ELSE ""

\* check_up_to_date, the loop over data['deps']: the exception it raises, ""
\* if none.  A file: entry passes a str to SourceFile.get (AttributeError);
\* an entry with none of the three prefixes reaches the final else and
\* raise Exception("unrecognized dep type").
DepLoopError(deps) ==
    IF \E d \in deps : d.kind = "file" THEN "AttributeError"
    ELSE IF \E d \in deps : d.kind \notin {"file", "module", "include"} THEN "Exception"
    ELSE ""

\* SourceFile.check_up_to_date, on the record r of file f.  Returns the
\* record with up_to_date, need_recompile, deps and output_mtime as the code
\* leaves them, and the exception that escapes ("" if none).
check_up_to_date(f, r) ==
    LET i == info[f]
        infofile_mtime == IF i.state = "absent" THEN 0 ELSE i.mtime
        mods == {d \in i.deps : d.kind = "module"}
        incs == {d \in i.deps : d.kind = "include"}
        r1 == [r EXCEPT !.output_mtime = infofile_mtime]
    IN  IF r.up_to_date # "None" THEN [file |-> r, err |-> ""]
        ELSE IF SourceNewer(r, infofile_mtime)
        THEN [file |-> [r EXCEPT !.up_to_date = "False", !.need_recompile = "True"],
              err |-> ""]
        ELSE IF i.state = "corrupt"
        THEN [file |-> r1, err |-> "JSONDecodeError"]
        ELSE IF i.command # compiler_cmd_of(f, r.type)
        THEN [file |-> [r1 EXCEPT !.up_to_date = "False", !.need_recompile = "True"],
              err |-> ""]
        ELSE IF DepLoopError(i.deps) # ""
        THEN [file |-> [r1 EXCEPT !.need_recompile = "False"], err |-> DepLoopError(i.deps)]
        ELSE [file |-> [r1 EXCEPT
                  !.up_to_date = IF i.deps = {} THEN "True" ELSE "False",
                  !.need_recompile =
                      IF \E d \in i.deps : DepForcesRecompile(d, infofile_mtime)
                      THEN "True" ELSE "False",
                  !.deps = mods \cup incs],
              err |-> ""]

\* SourceFile.build without its "if self.processed: return"
SourceFile_processed_never(f) == FALSE

\* SourceFile.build, first lines: a record already built in this process is
\* not built again.
SourceFile_processed(f) == files[f].processed

\* Target.compile, first lines after SourceFile.get: a file this target has
\* already processed is skipped.
Target_processed(t, f) == f \in tgt[t].processed_files

\* Target.compile, last lines: the object joins the link list (the file is
\* not a header) and the target's watermark is raised.
Target_finish(T, t, f, r) ==
    [T EXCEPT ![t].objs =
                  IF r.type \notin {"system header", "user header"}
                  THEN Append(@, P(f.stem, ".o")) ELSE @,
              ![t].most_recent_output_mtime = Max(@, r.output_mtime)]

\* an uncaught exception ends the process: traceback, exit status 1
Crash(e) == status' = "crashed" /\ error' = e /\ exitCode' = 1

\* CompiledModule.build with the hash taken as soon as target.compile is called
HashTaken_at_call(mod, returned) == mod # NoModule

\* CompiledModule.build, last lines: sha256_file(self.cmpath) runs when
\* target.compile(self.srcpath, ...) has returned the file.
HashTaken(mod, returned) == mod # NoModule /\ returned

\* CompiledModule.cmhash after the step of a Target.compile that
\* CompiledModule.build(mod) called (mod = NoModule: any other caller)
cmhash_after(mod, returned) ==
    IF HashTaken(mod, returned) THEN [cmhash EXCEPT ![mod] = cmDisk[mod]] ELSE cmhash

\* Target.compile(path, type, modname) from the point of the call up to the
\* first step that takes time: the start of the compiler (rebuild) or the
\* first recorded dep (deps-only).  stk is the caller's stack and F the
\* registry as the caller leaves it; mod is the module on whose behalf
\* CompiledModule.build made the call.
Target_compile(t, f, type, mod, stk, F) ==
    LET ty   == IF type # "None" THEN type ELSE InferType(f)
        r0   == SourceFile_get(F, f, ty, mod)
        T1   == [tgt EXCEPT ![t].processed_files = @ \cup {f}]
        r1   == [r0 EXCEPT !.processed = TRUE]
        chk  == check_up_to_date(f, r1)
        r2   == chk.file
    IN  IF ty = "unrecognized"
        THEN \* warn("unrecognized file type"), exit(1)
             /\ status' = "exited"
             /\ error' = "exit"
             /\ exitCode' = 1
             /\ stack' = stk
             /\ files' = F
             /\ UNCHANGED <<tgt, running, now, compileCount, cmhash>>
        ELSE IF SourceFile_get_error(F, f, ty, mod) # ""
        THEN /\ Crash(SourceFile_get_error(F, f, ty, mod))
             /\ stack' = stk
             /\ files' = F
             /\ UNCHANGED <<tgt, running, now, compileCount, cmhash>>
        ELSE IF Target_processed(t, f)
        THEN \* returns None; CompiledModule.build then reads None.cmpath
             /\ stack' = stk
             /\ files' = F
             /\ IF mod # NoModule
                THEN Crash("AttributeError")
                ELSE UNCHANGED <<status, error, exitCode>>
             /\ UNCHANGED <<tgt, running, now, compileCount, cmhash>>
        ELSE IF SourceFile_processed(f)
        THEN /\ stack' = stk
             /\ files' = [F EXCEPT ![f] = r0]
             /\ tgt' = Target_finish(T1, t, f, r0)
             /\ cmhash' = cmhash_after(mod, TRUE)
             /\ UNCHANGED <<running, status, error, now, compileCount, exitCode>>
        ELSE IF chk.err # ""
        THEN /\ Crash(chk.err)
             /\ stack' = stk
             /\ files' = [F EXCEPT ![f] = r2]
             /\ tgt' = T1
             /\ UNCHANGED <<running, now, compileCount, cmhash>>
        ELSE IF r2.up_to_date = "True"
        THEN /\ stack' = stk
             /\ files' = [F EXCEPT ![f] = r2]
             /\ tgt' = Target_finish(T1, t, f, r2)
             /\ cmhash' = cmhash_after(mod, TRUE)
             /\ UNCHANGED <<running, status, error, now, compileCount, exitCode>>
        ELSE IF r2.need_recompile = "True"
        THEN \* SourceFile.compile: self.header_deps = set().  compile_gcc: Popen,
             \* then self.deps = set(); for C and assembler compile_gcc_c instead,
             \* which runs the compiler through shell() and leaves self.deps alone.
             /\ stack' = Append(stk, [t |-> t, f |-> f,
                                      pc |-> IF r2.type \in {"c", "asm"} THEN "shell"
                                             ELSE "dialogue",
                                      todo |-> {}, mod |-> mod])
             /\ files' = [F EXCEPT ![f] =
                             [r2 EXCEPT !.deps = IF r2.type \in {"c", "asm"} THEN @ ELSE {},
                                        !.header_deps = {}]]
             /\ tgt' = T1
             /\ running' = running \cup {f}
             /\ compileCount' = [compileCount EXCEPT ![f] = @ + 1]
             /\ cmhash' = cmhash_after(mod, FALSE)
             /\ UNCHANGED <<status, error, now, exitCode>>
        ELSE \* SourceFile.build_deps
             /\ stack' = Append(stk, [t |-> t, f |-> f, pc |-> "deps", todo |-> r2.deps,
                                      mod |-> mod])
             /\ files' = [F EXCEPT ![f] = r2]
             /\ tgt' = T1
             /\ cmhash' = cmhash_after(mod, FALSE)
             /\ UNCHANGED <<running, status, error, now, compileCount, exitCode>>

\* Target.compile(path), as the build script and HeaderDep.build call it
Demand(t, f, stk, F) == Target_compile(t, f, "None", NoModule, stk, F)

Top == stack[Len(stack)]
Rest == SubSeq(stack, 1, Len(stack) - 1)

----------------------------------------------------------------------------
(* The module mapper protocol.  A request is a verb and its argument; a
   string argument is the sequence of its pieces, so that "/usr/stdio.h" is
   <<"/", "usr/stdio", ".h">> and the module partition "m:p" is
   <<"m", ":", "p">>. *)

Req(verb, arg) == [verb |-> verb, arg |-> arg]
Resp(kind, text) == [kind |-> kind, text |-> text]

\* the verbs compile_gcc has a branch for
AllVerbs == {"HELLO", "INCLUDE-TRANSLATE", "MODULE-REPO", "MODULE-IMPORT", "MODULE-EXPORT",
             "MODULE-COMPILED"}
\* ... and those whose branch never builds anything
RecognisedVerbs == AllVerbs \ {"MODULE-IMPORT"}

\* cfg.OBJDIR
OBJDIR == <<"obj">>

\* file.startswith('/')
StartsWithSlash(file) == Len(file) > 0 /\ file[1] = "/"

\* Path(file), for a file name given as <<..., stem, suffix>>
PathOf(file) == P(file[Len(file) - 1], file[Len(file)])

\* str.replace(old, new) on a string given by its pieces
RECURSIVE Replace(_, _, _)
Replace(str, old, new) ==
    IF str = <<>> THEN <<>>
    ELSE <<IF Head(str) = old THEN new ELSE Head(str)>> \o Replace(Tail(str), old, new)

\* mod2cm: the interface file of a module name, relative to the object dir
mod2cm(modname) ==
    IF StartsWithSlash(modname) THEN Tail(modname) \o <<".pcm">>
    ELSE IF Len(modname) > 0 /\ modname[1] = "./" THEN Tail(modname) \o <<".pcm">>
    ELSE Replace(modname, ":", "-") \o <<".pcm">>

\* MapperResponse with include translation accepted only for relative paths
MapperResponse_refusing(req) ==
    IF req.verb = "INCLUDE-TRANSLATE" /\ StartsWithSlash(req.arg)
    THEN Resp("BOOL", <<"FALSE">>)
    ELSE IF req.verb = "INCLUDE-TRANSLATE" THEN Resp("BOOL", <<"TRUE">>)
    ELSE IF req.verb = "HELLO" THEN Resp("HELLO", <<"1", "buildtool.py">>)
    ELSE IF req.verb = "MODULE-REPO" THEN Resp("PATHNAME", OBJDIR)
    ELSE IF req.verb = "MODULE-EXPORT" THEN Resp("PATHNAME", mod2cm(req.arg))
    ELSE Resp("OK", <<>>)

\* compile_gcc: what each branch without side effects appends to out
MapperResponse(req) ==
    IF req.verb = "HELLO" THEN Resp("HELLO", <<"1", "buildtool.py">>)
    ELSE IF req.verb = "INCLUDE-TRANSLATE" THEN Resp("BOOL", <<"TRUE">>)
    ELSE IF req.verb = "MODULE-REPO" THEN Resp("PATHNAME", OBJDIR)
    ELSE IF req.verb = "MODULE-EXPORT" THEN Resp("PATHNAME", mod2cm(req.arg))
    ELSE Resp("OK", <<>>)

\* the compiler processes alive when the driver goes on without waiting for f's
process_wait_skipped(f) == running

\* process.wait() in compile_gcc, subprocess.run() in shell(): the driver goes
\* on only when the compiler of f has exited
process_wait(f) == running \ {f}

\* compile_gcc, INCLUDE-TRANSLATE: "if not file.startswith('/')"
RecordsHeaderDep(req) == req.verb = "INCLUDE-TRANSLATE" /\ ~StartsWithSlash(req.arg)

\* the locals of compile_gcc when no batch has been read
NoBatch == [reqs |-> <<>>, out |-> <<>>, warned |-> 0, written |-> FALSE]

\* the pipes of compile_gcc when nothing has been read yet
NoWire == [pending |-> <<>>, sent |-> <<>>, eof |-> FALSE]

\* compile_gcc, s = " ;\n".join(out) + '\n': the text of one write, line by
\* line, each response with the characters that end its line
Flush(out) ==
    [i \in DOMAIN out |-> [resp |-> out[i].resp,
                           end |-> IF i < Len(out) THEN " ;\n" ELSE "\n"]]

----------------------------------------------------------------------------
(* Actions *)

\* build(): a Target is created, its entry points are compiled, it is linked;
\* the build script may then build its next Target.
Active(t) ==
    /\ t <= nTargets
    /\ ~linked[t].called
    /\ \A u \in Targets : u < t => linked[u].called

\* The build script calls Target.compile(path) on an entry point.
EntryCompile(t, f) ==
    /\ status = "ok"
    /\ stack = <<>>
    /\ Active(t)
    /\ f \in entryPoints
    /\ Demand(t, f, <<>>, files)
    /\ UNCHANGED <<diskVars, scriptVars, hdrBuilt, imported, info0, cm0, linked, compilerCode>>
    /\ UNCHANGED <<ioVars, dlgVars, regVars>>

\* The same call, remembered as the last demand of the build script.
Target_compile_call(t, f) ==
    /\ status = "ok"
    /\ stack = <<>>
    /\ Active(t)
    /\ f \in entryPoints
    /\ Demand(t, f, <<>>, files)
    /\ demand' = [via |-> "compile", path |-> f, type |-> "None", modname |-> NoModule,
                  old |-> files[f]]
    /\ UNCHANGED <<diskVars, scriptVars, hdrBuilt, imported, info0, cm0, linked, compilerCode>>
    /\ UNCHANGED <<ioVars, dlgVars, resolve, lookup, scan, iface>>

\* The build script calls target.compile(path, type) with the type it names.
Target_compile_typed(t, f, type) ==
    /\ status = "ok"
    /\ stack = <<>>
    /\ Active(t)
    /\ f \in entryPoints
    /\ Target_compile(t, f, type, NoModule, <<>>, files)
    /\ UNCHANGED <<diskVars, scriptVars, hdrBuilt, imported, info0, cm0, linked, compilerCode>>
    /\ UNCHANGED <<ioVars, dlgVars, regVars>>

\* The build script calls SourceFile.get(path, cfg, type, modname): an
\* exception ends the process, otherwise the record is interned.
SourceFile_get_call(f, type, modname) ==
    /\ status = "ok"
    /\ stack = <<>>
    /\ demand' = [via |-> "get", path |-> f, type |-> type, modname |-> modname,
                  old |-> files[f]]
    /\ LET e == SourceFile_get_error(files, f, type, modname)
       IN  IF e # ""
           THEN Crash(e) /\ UNCHANGED files
           ELSE /\ files' = [files EXCEPT ![f] = SourceFile_get(files, f, type, modname)]
                /\ UNCHANGED <<status, error, exitCode>>
    /\ UNCHANGED <<diskVars, scriptVars, hdrBuilt, cmhash, tgt, stack, running, now, histVars>>
    /\ UNCHANGED <<ioVars, dlgVars, resolve, lookup, scan, iface>>

\* INCLUDE-TRANSLATE building the header dep at once, inside the dialogue
MapperIncludeTranslate_eager(h) ==
    /\ status = "ok"
    /\ stack # <<>>
    /\ Top.pc = "dialogue"
    /\ LET F == [files EXCEPT ![Top.f].deps = @ \cup {IncludeDep(h)},
                              ![Top.f].header_deps = @ \cup {h}]
       IN  IF hdrBuilt[h] \/ find_cpp(h) = NoPath
           THEN /\ files' = F
                /\ UNCHANGED <<hdrBuilt, tgt, stack, running, status, error, exitCode, now,
                               compileCount, cmhash>>
           ELSE /\ hdrBuilt' = [hdrBuilt EXCEPT ![h] = TRUE]
                /\ Demand(Top.t, find_cpp(h), stack, F)
    /\ UNCHANGED <<diskVars, scriptVars, imported, info0, cm0, linked, compilerCode>>
    /\ UNCHANGED <<ioVars, dlgVars, regVars>>

\* MapperStep with an unknown verb treated as fatal after the warning
MapperStep_fatal(req, a) ==
    IF req.verb = "MODULE-IMPORT"
    THEN [a EXCEPT !.imported = @ \cup {req.arg}, !.err = "TypeError"]
    ELSE IF req.verb \notin RecognisedVerbs
    THEN [a EXCEPT !.warned = @ + 1, !.err = "Exception"]
    ELSE [a EXCEPT
             !.deps = IF RecordsHeaderDep(req) THEN @ \cup {IncludeDep(PathOf(req.arg))}
                      ELSE @,
             !.header_deps = IF RecordsHeaderDep(req) THEN @ \cup {PathOf(req.arg)} ELSE @,
             !.out = Append(@, [req |-> req, resp |-> MapperResponse(req)])]

\* compile_gcc, one request of a batch: the handler of its verb, applied to
\* the locals and fields a of the dialogue.  out collects each response with
\* the request it answers.
MapperStep(req, a) ==
    IF req.verb = "MODULE-IMPORT"
    THEN \* mod.build(target, cfg): one argument more than
         \* CompiledModule.build(self, target) takes
         [a EXCEPT !.imported = @ \cup {req.arg}, !.err = "TypeError"]
    ELSE IF req.verb \notin RecognisedVerbs
    THEN [a EXCEPT !.warned = @ + 1]
    ELSE [a EXCEPT
             !.deps = IF RecordsHeaderDep(req) THEN @ \cup {IncludeDep(PathOf(req.arg))}
                      ELSE @,
             !.header_deps = IF RecordsHeaderDep(req) THEN @ \cup {PathOf(req.arg)} ELSE @,
             !.out = Append(@, [req |-> req, resp |-> MapperResponse(req)])]

\* compile_gcc, "for line in lines": the requests of a batch in order, up to
\* the first that raises
RECURSIVE MapperRun(_, _, _)
MapperRun(lines, i, a) ==
    IF i > Len(lines) \/ a.err # "" THEN a
    ELSE MapperRun(lines, i + 1, MapperStep(lines[i], a))

\* how many requests of a batch have an unrecognised verb
Unknowns(lines) == Cardinality({i \in DOMAIN lines : lines[i].verb \notin AllVerbs})

\* compile_gcc, one round of the request loop: a batch of lines is read, each
\* is handled, and the responses are written in one flush (nothing is written
\* when there is no response).
MapperHandle(lines, reading) ==
    /\ status = "ok"
    /\ stack # <<>>
    /\ Top.pc = "dialogue"
    /\ ~wire.eof
    /\ warnings + Unknowns(lines) <= MaxWarnings
    /\ LET a == MapperRun(lines, 1, [deps |-> files[Top.f].deps,
                                      header_deps |-> files[Top.f].header_deps,
                                      out |-> <<>>, warned |-> 0, imported |-> {},
                                      err |-> ""])
       IN  /\ files' = [files EXCEPT ![Top.f].deps = a.deps,
                                     ![Top.f].header_deps = a.header_deps]
           /\ imported' = [imported EXCEPT ![Top.f] = @ \cup a.imported]
           /\ warnings' = warnings + a.warned
           /\ batch' = [reqs |-> lines, out |-> a.out, warned |-> a.warned,
                        written |-> a.err = "" /\ a.out # <<>> /\ reading]
           /\ IF a.err # "" THEN Crash(a.err)
              ELSE IF a.out # <<>> /\ ~reading THEN Crash("BrokenPipeError")
              ELSE UNCHANGED <<status, error, exitCode>>
    /\ UNCHANGED <<diskVars, scriptVars, hdrBuilt, cmhash, tgt, stack, running, now,
                   compileCount, info0, cm0, linked, compilerCode>>
    /\ UNCHANGED <<ioVars, regVars>>

\* compile_gcc, one round of the request loop with the batch taken whole
MapperBatch(lines) ==
    /\ wire.pending = <<>>
    /\ MapperHandle(lines, TRUE)
    /\ UNCHANGED wire

\* compile_gcc, one line read from the compiler.  cont: the line ends in ';',
\* it joins the batch and the loop reads on.  Otherwise the batch is complete:
\* its lines are handled and the responses written in one flush.
MapperReadLine(req, cont) ==
    /\ Len(wire.pending) < MaxBatch
    /\ IF cont
       THEN /\ status = "ok"
            /\ stack # <<>>
            /\ Top.pc = "dialogue"
            /\ ~wire.eof
            /\ wire' = [wire EXCEPT !.pending = Append(@, req), !.sent = <<>>]
            /\ UNCHANGED <<diskVars, memVars, histVars, ioVars, batch, warnings, regVars>>
       ELSE /\ MapperHandle(Append(wire.pending, req), TRUE)
            /\ wire' = [wire EXCEPT !.pending = <<>>,
                                    !.sent = IF batch'.written THEN Flush(batch'.out)
                                             ELSE <<>>]

\* compile_gcc, readline() returns "" (the compiler closed its output): the
\* read loop breaks and eof is set.  With no line pending nothing is handled
\* and the request loop ends.  With lines pending they are handled and the responses
\* written first; reading tells whether the compiler still holds the other
\* end of the driver's output pipe.
MapperEOF(reading) ==
    IF wire.pending = <<>>
    THEN /\ status = "ok"
         /\ stack # <<>>
         /\ Top.pc = "dialogue"
         /\ ~wire.eof
         /\ wire' = [wire EXCEPT !.eof = TRUE, !.sent = <<>>]
         /\ UNCHANGED <<diskVars, memVars, histVars, ioVars, batch, warnings, regVars>>
    ELSE /\ MapperHandle(wire.pending, reading)
         /\ wire' = [pending |-> <<>>,
                     sent |-> IF batch'.written THEN Flush(batch'.out) ELSE <<>>,
                     eof |-> TRUE]

\* compile_gcc, INCLUDE-TRANSLATE <h>: a header dep is recorded on the file
\* being compiled; nothing is built.
MapperIncludeTranslate(h) == MapperBatch(<<Req("INCLUDE-TRANSLATE", <<h.stem, h.suffix>>)>>)

\* compile_gcc, MODULE-IMPORT <m>: mod.build(target, cfg) is called with one
\* argument more than CompiledModule.build(self, target) takes.
MapperModuleImport(m) == MapperBatch(<<Req("MODULE-IMPORT", m)>>)

\* SourceFile.update called before the compile instead of after it
update_before_compile(f, r, t) == OkInfo(now, compiler_cmd_of(f, r.type), r.deps)

\* SourceFile.update: the info file is rewritten, at time t, with the current
\* command and the deps of the record.
update(f, r, t) == OkInfo(t, compiler_cmd_of(f, r.type), r.deps)

\* compile_gcc with the exit code of the compiler never looked at
CompileFailed_never(code) == FALSE

\* compile_gcc, last lines: "if exitcode != 0: exit(exitcode)"
CompileFailed(code) == code # 0

\* The compiler closes the mapper pipe and exits.  Non-zero: exit(exitcode).
\* Zero: the object (and the interface of a module source) is on disk, update()
\* writes the info file, output_mtime is stamped, and the walk goes on to the
\* header deps found by this compile.
CompilerExit(code, h) ==
    /\ status = "ok"
    /\ stack # <<>>
    /\ Top.pc = "dialogue"
    /\ running' = process_wait(Top.f)
    /\ IF CompileFailed(code)
       THEN /\ status' = "exited"
            /\ error' = "exit"
            /\ exitCode' = code
            /\ UNCHANGED <<diskVars, files, stack>>
            /\ UNCHANGED now
       ELSE /\ now' = now + tick
            /\ objMtime' = IF files[Top.f].type \in HeaderTypes THEN objMtime
                           ELSE [objMtime EXCEPT ![Top.f] = now']
            /\ cmDisk' = IF ModOf(Top.f) # NoModule
                         THEN [cmDisk EXCEPT ![ModOf(Top.f)] = h] ELSE cmDisk
            /\ info' = [info EXCEPT ![Top.f] = update(Top.f, files[Top.f], now')]
            /\ files' = [files EXCEPT ![Top.f].output_mtime = now']
            /\ stack' = Append(Rest, [Top EXCEPT !.pc = "hdrs",
                           !.todo = {IncludeDep(x) : x \in files[Top.f].header_deps}])
            /\ UNCHANGED <<srcMtime, hdrMtime, ofileMtime, status, error, exitCode>>
    /\ compilerCode' = IF code # 0 THEN code ELSE compilerCode
    /\ UNCHANGED <<scriptVars, hdrBuilt, cmhash, tgt, compileCount, imported, info0, cm0,
                   linked>>
    /\ wire.pending = <<>>
    /\ batch' = NoBatch
    /\ wire' = NoWire
    /\ UNCHANGED <<ioVars, warnings, regVars>>

\* compile_gcc_c: shell() returns or calls exit(1); then
\* process_makefile_deps adds the headers hs the compiler listed in the .make
\* file to deps and header_deps, update() writes the info file, output_mtime
\* is stamped, and the walk goes on to the header deps.
ShellExit(code, hs) ==
    /\ status = "ok"
    /\ stack # <<>>
    /\ Top.pc = "shell"
    /\ running' = process_wait(Top.f)
    /\ IF code # 0
       THEN /\ status' = "exited"
            /\ error' = "exit"
            /\ exitCode' = 1
            /\ UNCHANGED <<diskVars, files, stack, now>>
       ELSE LET r == [files[Top.f] EXCEPT
                         !.deps = @ \cup {IncludeDep(x) : x \in hs},
                         !.header_deps = @ \cup hs]
            IN  /\ now' = now + tick
                /\ objMtime' = [objMtime EXCEPT ![Top.f] = now']
                /\ info' = [info EXCEPT ![Top.f] = update(Top.f, r, now')]
                /\ files' = [files EXCEPT ![Top.f] = [r EXCEPT !.output_mtime = now']]
                /\ stack' = Append(Rest, [Top EXCEPT !.pc = "hdrs",
                               !.todo = {IncludeDep(x) : x \in r.header_deps}])
                /\ UNCHANGED <<srcMtime, hdrMtime, cmDisk, ofileMtime, status, error,
                               exitCode>>
    /\ compilerCode' = IF code # 0 THEN code ELSE compilerCode
    /\ UNCHANGED <<scriptVars, hdrBuilt, cmhash, tgt, compileCount, imported, info0, cm0,
                   linked>>
    /\ UNCHANGED <<ioVars, dlgVars, regVars>>

\* One iteration of "for header_dep in self.header_deps" (after a rebuild) or
\* of build_deps (deps-only), in the arbitrary order of a Python set.
BuildDep(d) ==
    /\ status = "ok"
    /\ stack # <<>>
    /\ Top.pc \in {"hdrs", "deps"}
    /\ d \in Top.todo
    /\ LET stk == Append(Rest, [Top EXCEPT !.todo = @ \ {d}])
       IN  IF d.kind = "module"
           THEN \* build_deps: mod.build(target, cfg), one argument too many
                /\ Crash("TypeError")
                /\ UNCHANGED <<files, hdrBuilt, tgt, stack, running, now, compileCount, cmhash>>
           ELSE \* HeaderDep.build
                IF hdrBuilt[d.name]
                THEN /\ stack' = stk
                     /\ UNCHANGED <<files, hdrBuilt, tgt, running, status, error, exitCode,
                                    now, compileCount, cmhash>>
                ELSE /\ hdrBuilt' = [hdrBuilt EXCEPT ![d.name] = TRUE]
                     /\ IF find_cpp(d.name) = NoPath
                        THEN /\ stack' = stk
                             /\ UNCHANGED <<files, tgt, running, status, error, exitCode,
                                            now, compileCount, cmhash>>
                        ELSE Demand(Top.t, find_cpp(d.name), stk, files)
    /\ UNCHANGED <<diskVars, scriptVars, imported, info0, cm0, linked, compilerCode>>
    /\ UNCHANGED <<ioVars, dlgVars, regVars>>

\* SourceFile.build returns to Target.compile, which finishes the file and
\* returns it; when CompiledModule.build made the call, it hashes the interface.
Return ==
    /\ status = "ok"
    /\ stack # <<>>
    /\ Top.pc \in {"hdrs", "deps"}
    /\ Top.todo = {}
    /\ stack' = Rest
    /\ tgt' = Target_finish(tgt, Top.t, Top.f, files[Top.f])
    /\ cmhash' = cmhash_after(Top.mod, TRUE)
    /\ UNCHANGED <<diskVars, scriptVars, files, hdrBuilt, running, status,
                   error, exitCode, now, histVars>>
    /\ UNCHANGED <<ioVars, dlgVars, regVars>>

\* The build script calls CompiledModule.get(m).build(target).  (The calls
\* the graph walk itself makes pass one argument too many and never get here.)
CompiledModule_build(t, m) ==
    /\ status = "ok"
    /\ stack = <<>>
    /\ Active(t)
    /\ IF cmhash[m] # "None"
       THEN \* the memoised hash is returned
            UNCHANGED <<files, tgt, stack, running, status, error, exitCode, now,
                        compileCount, cmhash>>
       ELSE Target_compile(t, mod2src(m), "module", m, <<>>, files)
    /\ UNCHANGED <<diskVars, scriptVars, hdrBuilt, imported, info0, cm0, linked, compilerCode>>
    /\ UNCHANGED <<ioVars, dlgVars, regVars>>

\* The build script calls target.compile(path, type=SourceType.MODULE) for
\* an entry point that is the source of module m, remembered as its last
\* demand.
Target_compile_module_call(t, m) ==
    /\ status = "ok"
    /\ stack = <<>>
    /\ Active(t)
    /\ mod2src(m) \in entryPoints
    /\ Target_compile(t, mod2src(m), "module", NoModule, <<>>, files)
    /\ demand' = [via |-> "compile", path |-> mod2src(m), type |-> "module",
                  modname |-> NoModule, old |-> files[mod2src(m)]]
    /\ UNCHANGED <<diskVars, scriptVars, hdrBuilt, imported, info0, cm0, linked, compilerCode>>
    /\ UNCHANGED <<ioVars, dlgVars, resolve, lookup, scan, iface>>

\* The build script calls CompiledModule.get(m).build(target), remembered as
\* its last demand.
CompiledModule_build_call(t, m) ==
    /\ status = "ok"
    /\ stack = <<>>
    /\ Active(t)
    /\ IF cmhash[m] # "None"
       THEN \* the memoised hash is returned
            UNCHANGED <<files, tgt, stack, running, status, error, exitCode, now,
                        compileCount, cmhash>>
       ELSE Target_compile(t, mod2src(m), "module", m, <<>>, files)
    /\ demand' = [via |-> "module", path |-> mod2src(m), type |-> "module", modname |-> m,
                  old |-> files[mod2src(m)]]
    /\ UNCHANGED <<diskVars, scriptVars, hdrBuilt, imported, info0, cm0, linked, compilerCode>>
    /\ UNCHANGED <<ioVars, dlgVars, resolve, lookup, scan, iface>>

\* SourceFile.compile with USECLANG set: self.compile_clang(target, cfg) is
\* called with one argument more than compile_clang(self, target) takes.
SourceFile_compile_clang(f) ==
    /\ status = "ok"
    /\ stack = <<>>
    /\ Crash("TypeError")
    /\ scan' = [NoScan EXCEPT !.path = f]
    /\ UNCHANGED <<diskVars, scriptVars, files, hdrBuilt, cmhash, tgt, stack, running, now,
                   histVars, ioVars, dlgVars, demand, resolve, lookup, iface>>

\* The build script calls file.clang_get_deps(target, cfg) itself; the
\* scanner exits with code and names the headers and modules given.
clang_get_deps_call(f, code, named, requires) ==
    /\ status = "ok"
    /\ stack = <<>>
    /\ LET r == clang_get_deps(code, named, requires)
       IN  /\ scan' = [path |-> f, code |-> code, named |-> named, requires |-> requires,
                       runs |-> r.runs, built |-> r.built]
           /\ IF r.err # "" THEN Crash(r.err) ELSE UNCHANGED <<status, error, exitCode>>
    /\ UNCHANGED <<diskVars, scriptVars, files, hdrBuilt, cmhash, tgt, stack, running, now,
                   histVars, ioVars, dlgVars, demand, resolve, lookup, iface>>

\* HeaderDep.build calls self.find_cpp(self.path).
HeaderDep_find_cpp_call(hfile) ==
    /\ status = "ok"
    /\ lookup' = [fs |-> lookup.fs, hfile |-> hfile, cpp |-> find_cpp_in(hfile, lookup.fs)]
    /\ UNCHANGED <<diskVars, memVars, histVars, ioVars, dlgVars, demand, resolve, scan, iface>>

\* str(path), piece by piece: the directories, each followed by '/', then
\* the stem and the suffix of the file's name
RECURSIVE Joined(_)
Joined(dir) == IF dir = <<>> THEN <<>> ELSE <<Head(dir), "/">> \o Joined(Tail(dir))

PathStr(p) == Joined(IF "dir" \in DOMAIN p THEN p.dir ELSE <<>>) \o <<p.stem, p.suffix>>

\* cfg.OBJDIR / rel
UnderOBJDIR(rel) == OBJDIR \o <<"/">> \o rel

\* SourceFile.__init__, self.cmpath, for a source file below SRCDIR:
\* cfg.OBJDIR / mod2cm(modname) when the record is made with a module name,
\* cfg.OBJDIR / file.with_suffix(".pcm") when it is made without
SourceFile_cmpath(path, modname) ==
    IF modname # NoModule THEN UnderOBJDIR(mod2cm(modname))
    ELSE UnderOBJDIR(PathStr([path EXCEPT !.suffix = ".pcm"]))

\* compile_gcc, MODULE-EXPORT: the file the compiler writes the interface of
\* module name to, the reply taken relative to the MODULE-REPO directory
ExportedFile(name) == UnderOBJDIR(MapperResponse(Req("MODULE-EXPORT", name)).text)

\* the module names whose interface files are followed
IfaceNames == {<<"m">>, <<"x">>, <<"a", ".", "b">>, <<"m", ":", "p">>}

\* no record registered, nothing compiled, nothing hashed
NoIface == [n \in IfaceNames |-> [registered |-> "no", cmpath |-> <<>>, exported |-> <<>>,
                                  hashed |-> <<>>]]

\* One target of the build script compiles the source of module name as an
\* entry point, target.compile(path, type=SourceType.MODULE): SourceFile.get
\* makes the record without a module name, and compile_gcc answers the
\* compiler's MODULE-EXPORT.
Target_compile_unnamed(name) ==
    /\ status = "ok"
    /\ stack = <<>>
    /\ iface[name].registered = "no"
    /\ iface' = [iface EXCEPT ![name] =
                    [registered |-> "unnamed",
                     cmpath |-> SourceFile_cmpath(mod2path_named(name), NoModule),
                     exported |-> ExportedFile(name),
                     hashed |-> <<>>]]
    /\ UNCHANGED <<diskVars, memVars, histVars, ioVars, dlgVars, demand, resolve, lookup, scan>>

\* CompiledModule.get(name).build(target) for a target that has not
\* processed the module's source, in an object directory that holds the
\* interface files this process had the compiler write and no other:
\* target.compile(srcpath, type, modname=name) gets the record there is, or
\* makes it with the module name and has it compiled; sha256_file then opens
\* self.srcfile.cmpath.
CompiledModule_build_iface(name) ==
    /\ status = "ok"
    /\ stack = <<>>
    /\ iface[name].hashed = <<>>
    /\ LET rec == iface[name]
           cm == IF rec.registered = "no"
                 THEN SourceFile_cmpath(mod2path_named(name), name)
                 ELSE rec.cmpath
           exported == IF rec.registered = "no" THEN ExportedFile(name) ELSE rec.exported
       IN  /\ iface' = [iface EXCEPT ![name] =
                           [registered |-> IF rec.registered = "no" THEN "named"
                                           ELSE rec.registered,
                            cmpath |-> cm, exported |-> exported, hashed |-> cm]]
           /\ IF cm = exported THEN UNCHANGED <<status, error, exitCode>>
              ELSE Crash("FileNotFoundError")
    /\ UNCHANGED <<diskVars, scriptVars, files, hdrBuilt, cmhash, tgt, stack, running, now,
                   histVars, ioVars, dlgVars, demand, resolve, lookup, scan>>

\* The build script calls target.mod2src(name, SourceType.MODULE).
Target_mod2src_call(name) ==
    /\ status = "ok"
    /\ stack = <<>>
    /\ LET r == Target_mod2src(name, resolve.fs, 1, <<>>)
       IN  /\ resolve' = [fs |-> resolve.fs, name |-> name, path |-> r.path,
                          failed |-> r.failed]
           /\ IF r.error = "" THEN UNCHANGED <<status, error, exitCode>>
              ELSE IF r.error = "exit"
              THEN status' = "exited" /\ error' = "exit" /\ exitCode' = 1
              ELSE Crash(r.error)
    /\ UNCHANGED <<diskVars, scriptVars, files, hdrBuilt, cmhash, tgt, stack, running, now,
                   histVars>>
    /\ UNCHANGED <<ioVars, dlgVars, demand, lookup, scan, iface>>

\* Target.link's decision
LinkDecision(most_recent_output_mtime, this_mtime, ofile_mtime) ==
    most_recent_output_mtime >= ofile_mtime \/ this_mtime > ofile_mtime

\* The build script calls Target.link(), after Target.compile.
Link(t) ==
    /\ status = "ok"
    /\ stack = <<>>
    /\ Active(t)
    /\ tgt[t].processed_files # {}
    /\ LET run == LinkDecision(tgt[t].most_recent_output_mtime, THIS_MTIME, ofileMtime[t])
       IN  /\ linked' = [linked EXCEPT ![t] =
                  [called |-> TRUE, ran |-> run,
                   most_recent |-> tgt[t].most_recent_output_mtime,
                   ofile |-> ofileMtime[t]]]
           /\ ofileMtime' = IF run THEN [ofileMtime EXCEPT ![t] = now] ELSE ofileMtime
    /\ UNCHANGED <<srcMtime, hdrMtime, info, cmDisk, objMtime, memVars, compileCount,
                   imported, info0, cm0, compilerCode>>
    /\ UNCHANGED <<ioVars, dlgVars, regVars>>

Next ==
    \/ \E t \in Targets, f \in Sources : EntryCompile(t, f)
    \/ \E h \in Headers : MapperIncludeTranslate(h)
    \/ \E m \in Modules : MapperModuleImport(m)
    \/ \E c \in ExitCodes, h \in Hashes : CompilerExit(c, h)
    \/ \E d \in (IF stack # <<>> THEN Top.todo ELSE {}) : BuildDep(d)
    \/ Return
    \/ \E t \in Targets, m \in Modules : CompiledModule_build(t, m)
    \/ \E t \in Targets : Link(t)

\* the requests a compiler of the model sends
Requests ==
    {Req("HELLO", <<"1", "GCC">>),
     Req("INCLUDE-TRANSLATE", <<"h", ".h">>),
     Req("INCLUDE-TRANSLATE", <<"/", "usr/include/stdio", ".h">>),
     Req("MODULE-REPO", <<>>),
     Req("MODULE-EXPORT", <<"m">>),
     Req("MODULE-EXPORT", <<"m", ":", "p">>),
     Req("MODULE-EXPORT", <<"/", "foo">>),
     Req("MODULE-EXPORT", <<"./", "dir/file", ".h">>),
     Req("MODULE-COMPILED", <<"m">>),
     Req("MODULE-IMPORT", <<"m">>),
     Req("MODULE-FOO", <<"x">>)}

\* the batches it sends: up to MaxBatch requests, all but the last ending in ';'
Batches == UNION {[1..n -> Requests] : n \in 1..MaxBatch}

\* the walk with the whole dialogue: any batch of requests
NextMapper ==
    \/ \E t \in Targets, f \in Sources : EntryCompile(t, f)
    \/ \E lines \in Batches : MapperBatch(lines)
    \/ \E c \in ExitCodes, h \in Hashes : CompilerExit(c, h)
    \/ \E d \in (IF stack # <<>> THEN Top.todo ELSE {}) : BuildDep(d)
    \/ Return
    \/ \E t \in Targets : Link(t)

\* the lines a compiler sends one at a time: a request answered without side
\* effect, one that records a dep, one that writes nothing but a warning, and
\* an import
Lines ==
    {Req("MODULE-REPO", <<>>),
     Req("MODULE-EXPORT", <<"m">>),
     Req("INCLUDE-TRANSLATE", <<"h", ".h">>),
     Req("MODULE-IMPORT", <<"m">>),
     Req("MODULE-FOO", <<"x">>)}

\* the walk with the dialogue read line by line, and the compiler closing its
\* output at any point
NextFraming ==
    \/ \E t \in Targets, f \in Sources : EntryCompile(t, f)
    \/ \E req \in Lines, cont \in BOOLEAN : MapperReadLine(req, cont)
    \/ \E reading \in BOOLEAN : MapperEOF(reading)
    \/ \E c \in ExitCodes, h \in Hashes : CompilerExit(c, h)
    \/ \E d \in (IF stack # <<>> THEN Top.todo ELSE {}) : BuildDep(d)
    \/ Return
    \/ \E t \in Targets : Link(t)

\* the walk over a tree that also holds C sources
NextC ==
    \/ Next
    \/ \E c \in ExitCodes, hs \in SUBSET Headers : ShellExit(c, hs)

----------------------------------------------------------------------------
(* File writes, piece by piece.  The content of a file is the number of pieces
   of its document it holds: Absent for no file, 0 for an empty file,
   DocChunks for the complete document. *)

Absent == -1
Idle == [path |-> "", via |-> "idle"]

\* the JSON files the tool writes
JsonFiles == {"main.info", "compile_commands.json", "buildvars.json"}
\* SourceFile.update and build_compilation_database write through atomic_write
AtomicallyWritten == {"main.info", "compile_commands.json"}
\* DirectoryConfig.process writes buildvars.json with open(json_file, 'w')
DirectlyWritten == {"buildvars.json"}

\* atomic_write: open(tmpfile, 'w') creates or truncates "<path>.tmp"
atomic_write_open(p) ==
    /\ writer = Idle
    /\ batch = NoBatch
    /\ warnings = 0
    /\ wire = NoWire
    /\ p \in AtomicallyWritten
    /\ fsTmp' = [fsTmp EXCEPT ![p] = 0]
    /\ writer' = [path |-> p, via |-> "tmp"]
    /\ UNCHANGED <<fsFinal, diskVars, memVars, histVars, dlgVars, regVars>>

\* atomic_write: f.write(data), as the pieces reach the file
atomic_write_chunk ==
    /\ writer.via = "tmp"
    /\ fsTmp[writer.path] < DocChunks
    /\ fsTmp' = [fsTmp EXCEPT ![writer.path] = @ + 1]
    /\ UNCHANGED <<fsFinal, writer, diskVars, memVars, histVars, dlgVars, regVars>>

\* atomic_write: the file is closed, then os.rename(tmpfile, path)
atomic_write_rename ==
    /\ writer.via = "tmp"
    /\ fsTmp[writer.path] = DocChunks
    /\ fsFinal' = [fsFinal EXCEPT ![writer.path] = fsTmp[writer.path]]
    /\ fsTmp' = [fsTmp EXCEPT ![writer.path] = Absent]
    /\ writer' = Idle
    /\ UNCHANGED <<diskVars, memVars, histVars, dlgVars, regVars>>

\* DirectoryConfig.process: open(json_file, 'w') creates or truncates the file
process_open(p) ==
    /\ writer = Idle
    /\ batch = NoBatch
    /\ warnings = 0
    /\ wire = NoWire
    /\ p \in DirectlyWritten
    /\ fsFinal' = [fsFinal EXCEPT ![p] = 0]
    /\ writer' = [path |-> p, via |-> "direct"]
    /\ UNCHANGED <<fsTmp, diskVars, memVars, histVars, dlgVars, regVars>>

\* DirectoryConfig.process: json.dump(self.buildvars, f), piece by piece
process_chunk ==
    /\ writer.via = "direct"
    /\ fsFinal[writer.path] < DocChunks
    /\ fsFinal' = [fsFinal EXCEPT ![writer.path] = @ + 1]
    /\ UNCHANGED <<fsTmp, writer, diskVars, memVars, histVars, dlgVars, regVars>>

\* DirectoryConfig.process: the with block closes the file
process_close ==
    /\ writer.via = "direct"
    /\ fsFinal[writer.path] = DocChunks
    /\ writer' = Idle
    /\ UNCHANGED <<fsFinal, fsTmp, diskVars, memVars, histVars, dlgVars, regVars>>

\* The process is cut off in the middle of a write; a later run starts over.
CutOff ==
    /\ writer # Idle
    /\ writer' = Idle
    /\ UNCHANGED <<fsFinal, fsTmp, diskVars, memVars, histVars, dlgVars, regVars>>

NextIO ==
    \/ \E p \in JsonFiles : atomic_write_open(p)
    \/ atomic_write_chunk
    \/ atomic_write_rename
    \/ \E p \in JsonFiles : process_open(p)
    \/ process_chunk
    \/ process_close
    \/ CutOff

----------------------------------------------------------------------------
(* Initial states *)

\* the deps an info file of the model may list
RecordedDepSets ==
    {{}, {FileDep(HH)}}
    \cup {{IncludeDep(h)} : h \in Headers}
    \cup {{ModuleDep(m, s)} : m \in Modules, s \in Hashes}
    \cup {{IncludeDep(h), ModuleDep(m, s)} : h \in Headers, m \in Modules, s \in Hashes}

\* every info file main.cc may have; the companion has none or a fresh one
\* that lists no deps; so has the module source, or one an earlier run with
\* other flags wrote
InfoChoices(f) ==
    IF f = MainCC
    THEN {AbsentInfo}
         \cup {CorruptInfo(t) : t \in 1..MaxTime}
         \cup {OkInfo(t, c, d) : t \in 1..MaxTime, c \in {compiler_cmd(f), OtherCmd(f)},
                                 d \in RecordedDepSets}
    ELSE IF f = MCC
    THEN {AbsentInfo, OkInfo(MaxTime, compiler_cmd(f), {}), OkInfo(MaxTime, OtherCmd(f), {})}
    ELSE {AbsentInfo, OkInfo(MaxTime, compiler_cmd(f), {})}

\* what is in memory when the process starts: nothing is registered or built
InitMem ==
    /\ files = [f \in Sources |-> NewFile]
    /\ hdrBuilt = [h \in Headers |-> FALSE]
    /\ cmhash = [m \in Modules |-> "None"]
    /\ tgt = [t \in Targets |-> [processed_files |-> {}, objs |-> <<>>,
                                 most_recent_output_mtime |-> 0]]
    /\ stack = <<>>
    /\ running = {}
    /\ status = "ok"
    /\ error = ""
    /\ exitCode = 0
    /\ now = MaxTime + 1
    /\ compileCount = [f \in Sources |-> 0]
    /\ imported = [f \in Sources |-> {}]
    /\ compilerCode = 0
    /\ demand = NoDemand
    /\ linked = [t \in Targets |-> [called |-> FALSE, ran |-> FALSE,
                                    most_recent |-> 0, ofile |-> 0]]
    /\ fsFinal = [p \in JsonFiles |-> Absent]
    /\ fsTmp = [p \in JsonFiles |-> Absent]
    /\ writer = Idle
    /\ batch = NoBatch
    /\ warnings = 0
    /\ wire = NoWire

Init ==
    /\ srcMtime = [f \in Sources |-> 1]
    /\ hdrMtime \in [Headers -> 1..MaxTime]
    /\ \E a \in InfoChoices(MainCC), b \in InfoChoices(HCC), c \in InfoChoices(MCC) :
           info = [f \in Sources |-> IF f = MainCC THEN a ELSE IF f = HCC THEN b
                                   ELSE IF f = MCC THEN c ELSE AbsentInfo]
    /\ cmDisk = [m \in Modules |-> "A"]
    /\ objMtime = [f \in Sources |-> 0]
    /\ ofileMtime = [t \in Targets |-> 0]
    /\ THIS_MTIME = 0
    /\ nTargets = 1
    /\ entryPoints = CxxSources
    /\ tick = 0
    /\ info0 = info
    /\ cm0 = cmDisk
    /\ InitMem
    /\ resolve = NoResolve
    /\ lookup = NoLookup
    /\ scan = NoScan
    /\ iface = NoIface

Spec == Init /\ [][Next]_vars

\* A build script that builds several Targets in one process, on a disk where
\* each info file is absent or fresh.
InitMulti ==
    /\ srcMtime = [f \in Sources |-> 1]
    /\ hdrMtime = [h \in Headers |-> 1]
    /\ \E a \in {AbsentInfo, OkInfo(MaxTime, compiler_cmd(MainCC), {IncludeDep(HH)})},
          b \in InfoChoices(HCC), c \in InfoChoices(MCC) :
           info = [f \in Sources |-> IF f = MainCC THEN a ELSE IF f = HCC THEN b
                                   ELSE IF f = MCC THEN c ELSE AbsentInfo]
    /\ cmDisk = [m \in Modules |-> "A"]
    /\ objMtime = [f \in Sources |-> 0]
    /\ ofileMtime = [t \in Targets |-> 0]
    /\ THIS_MTIME = 0
    /\ nTargets = MaxTargets
    /\ entryPoints = CxxSources
    /\ tick = 0
    /\ info0 = info
    /\ cm0 = cmDisk
    /\ InitMem
    /\ resolve = NoResolve
    /\ lookup = NoLookup
    /\ scan = NoScan
    /\ iface = NoIface

SpecMulti == InitMulti /\ [][Next]_vars

\* A build script whose targets name main.cc and the module source m.cc as
\* entry points and also ask for the module itself, in any order.
NextCycle ==
    \/ \E t \in Targets, f \in Sources : Target_compile_call(t, f)
    \/ \E t \in Targets, m \in Modules : Target_compile_module_call(t, m)
    \/ \E t \in Targets, m \in Modules : CompiledModule_build_call(t, m)
    \/ \E h \in Headers : MapperIncludeTranslate(h)
    \/ \E c \in ExitCodes, h \in Hashes : CompilerExit(c, h)
    \/ \E d \in (IF stack # <<>> THEN Top.todo ELSE {}) : BuildDep(d)
    \/ Return
    \/ \E t \in Targets : Link(t)

SpecCycle == InitMulti /\ [][NextCycle]_vars

\* One Target, on a disk where each info file is absent or fresh, for every
\* mtime of the output file and every value of THIS_MTIME (the mtime of the
\* build script, which the script stores in the module global).
InitLink ==
    /\ srcMtime = [f \in Sources |-> 1]
    /\ hdrMtime = [h \in Headers |-> 1]
    /\ \E a \in {AbsentInfo, OkInfo(MaxTime, compiler_cmd(MainCC), {IncludeDep(HH)})},
          b \in InfoChoices(HCC), c \in InfoChoices(MCC) :
           info = [f \in Sources |-> IF f = MainCC THEN a ELSE IF f = HCC THEN b
                                   ELSE IF f = MCC THEN c ELSE AbsentInfo]
    /\ cmDisk = [m \in Modules |-> "A"]
    /\ objMtime = [f \in Sources |-> 0]
    /\ \E o \in 0..(MaxTime + 1) : ofileMtime = [t \in Targets |-> IF t = 1 THEN o ELSE 0]
    /\ THIS_MTIME \in 0..(MaxTime + 1)
    /\ nTargets = 1
    /\ entryPoints = CxxSources
    /\ tick = 0
    /\ info0 = info
    /\ cm0 = cmDisk
    /\ InitMem
    /\ resolve = NoResolve
    /\ lookup = NoLookup
    /\ scan = NoScan
    /\ iface = NoIface

SpecLink == InitLink /\ [][Next]_vars

\* A tree with a C source, on a disk left by earlier builds: a file that was
\* built has an info file and an object that is not newer than it; the clock
\* may advance while a compiler runs.
InitC ==
    /\ srcMtime = [f \in Sources |-> 1]
    /\ hdrMtime \in [Headers -> 1..MaxTime]
    /\ \E a \in {AbsentInfo, OkInfo(MaxTime, compiler_cmd(MainCC), {IncludeDep(HH)})},
          b \in InfoChoices(HCC),
          c \in {AbsentInfo, OkInfo(MaxTime, compiler_cmd(MCC), {})},
          d \in {AbsentInfo, OkInfo(MaxTime, compiler_cmd(CC), {}),
                 OkInfo(MaxTime, compiler_cmd(CC), {IncludeDep(HH)})} :
           info = [f \in Sources |-> IF f = MainCC THEN a ELSE IF f = HCC THEN b
                                   ELSE IF f = MCC THEN c
                                   ELSE IF f = CC THEN d ELSE AbsentInfo]
    /\ cmDisk = [m \in Modules |-> "A"]
    /\ \E k \in 0..(MaxTime - 1) :
           objMtime = [f \in Sources |-> IF info[f].state = "absent" THEN 0
                                         ELSE info[f].mtime - k]
    /\ ofileMtime = [t \in Targets |-> 0]
    /\ THIS_MTIME = 0
    /\ nTargets = 1
    /\ entryPoints = {MainCC, CC}
    /\ tick \in {0, 1}
    /\ info0 = info
    /\ cm0 = cmDisk
    /\ InitMem
    /\ resolve = NoResolve
    /\ lookup = NoLookup
    /\ scan = NoScan
    /\ iface = NoIface

SpecC == InitC /\ [][NextC]_vars

\* The build of main.cc from scratch, with a compiler that may send any batch.
InitMapper ==
    /\ srcMtime = [f \in Sources |-> 1]
    /\ hdrMtime = [h \in Headers |-> 1]
    /\ info = [f \in Sources |-> AbsentInfo]
    /\ cmDisk = [m \in Modules |-> "A"]
    /\ objMtime = [f \in Sources |-> 0]
    /\ ofileMtime = [t \in Targets |-> 0]
    /\ THIS_MTIME = 0
    /\ nTargets = 1
    /\ entryPoints = {MainCC}
    /\ tick = 0
    /\ info0 = info
    /\ cm0 = cmDisk
    /\ InitMem
    /\ resolve = NoResolve
    /\ lookup = NoLookup
    /\ scan = NoScan
    /\ iface = NoIface

SpecMapper == InitMapper /\ [][NextMapper]_vars

SpecFraming == InitMapper /\ [][NextFraming]_vars

\* The registry: a build script that names one entry point, of any suffix, and
\* calls SourceFile.get itself.
GetTypes == {"None", "c++", "module"}
GetModnames == {NoModule, <<"m">>, <<"n">>}

NextRegistry ==
    \/ \E f \in Sources : SourceFile_get_call(f, "None", NoModule)
    \/ \E type \in GetTypes, modname \in GetModnames : SourceFile_get_call(MCC, type, modname)
    \/ \E t \in Targets, f \in Sources : Target_compile_call(t, f)
    \/ \E h \in Headers : MapperIncludeTranslate(h)
    \/ \E c \in ExitCodes, h \in Hashes : CompilerExit(c, h)
    \/ \E c \in ExitCodes, hs \in SUBSET Headers : ShellExit(c, hs)
    \/ \E d \in (IF stack # <<>> THEN Top.todo ELSE {}) : BuildDep(d)
    \/ Return
    \/ \E t \in Targets : Link(t)

InitRegistry ==
    /\ srcMtime = [f \in Sources |-> 1]
    /\ hdrMtime = [h \in Headers |-> 1]
    /\ info = [f \in Sources |-> AbsentInfo]
    /\ cmDisk = [m \in Modules |-> "A"]
    /\ objMtime = [f \in Sources |-> 0]
    /\ ofileMtime = [t \in Targets |-> 0]
    /\ THIS_MTIME = 0
    /\ nTargets = 1
    /\ entryPoints \in {{f} : f \in Sources}
    /\ tick = 0
    /\ info0 = info
    /\ cm0 = cmDisk
    /\ InitMem
    /\ resolve = NoResolve
    /\ lookup = NoLookup
    /\ scan = NoScan
    /\ iface = NoIface

SpecRegistry == InitRegistry /\ [][NextRegistry]_vars

\* A build script that compiles main.cc and a generated file gen.h, naming a
\* header type for the latter, over every freshness outcome of the two.
NextTyped ==
    \/ \E t \in Targets : Target_compile_typed(t, MainCC, "None")
    \/ \E t \in Targets, type \in HeaderTypes : Target_compile_typed(t, GENH, type)
    \/ \E h \in Headers : MapperIncludeTranslate(h)
    \/ \E c \in ExitCodes, h \in Hashes : CompilerExit(c, h)
    \/ \E d \in (IF stack # <<>> THEN Top.todo ELSE {}) : BuildDep(d)
    \/ Return
    \/ \E t \in Targets : Link(t)

InitTyped ==
    /\ srcMtime = [f \in Sources |-> 1]
    /\ hdrMtime \in [Headers -> 1..MaxTime]
    /\ \E a \in {AbsentInfo, OkInfo(MaxTime, compiler_cmd(MainCC), {}),
                  OkInfo(MaxTime, compiler_cmd(MainCC), {IncludeDep(HH)})},
          b \in {AbsentInfo} \cup {OkInfo(MaxTime, compiler_cmd_of(GENH, type), {}) :
                                       type \in HeaderTypes} :
           info = [f \in Sources |-> IF f = MainCC THEN a ELSE IF f = GENH THEN b
                                   ELSE AbsentInfo]
    /\ cmDisk = [m \in Modules |-> "A"]
    /\ objMtime = [f \in Sources |-> 0]
    /\ ofileMtime = [t \in Targets |-> 0]
    /\ THIS_MTIME = 0
    /\ nTargets \in 1..MaxTargets
    /\ entryPoints = {MainCC, GENH}
    /\ tick = 0
    /\ info0 = info
    /\ cm0 = cmDisk
    /\ InitMem
    /\ resolve = NoResolve
    /\ lookup = NoLookup
    /\ scan = NoScan
    /\ iface = NoIface

SpecTyped == InitTyped /\ [][NextTyped]_vars

\* Info files written by something else: main.cc has an info file, older or
\* newer than the source and with the current argument list or another, whose
\* dep list holds an entry with an unknown prefix, alone or among others.
OddDepSets ==
    {{}, {UnknownDep(HH)}, {UnknownDep(HH), IncludeDep(HH)}}
    \cup {{UnknownDep(HH), ModuleDep(m, "A")} : m \in Modules}

InitInfo ==
    /\ srcMtime = [f \in Sources |-> 1]
    /\ hdrMtime = [h \in Headers |-> 1]
    /\ \E a \in {OkInfo(t, c, d) : t \in 1..MaxTime,
                                   c \in {compiler_cmd(MainCC), OtherCmd(MainCC)},
                                   d \in OddDepSets},
          b \in InfoChoices(HCC), c \in InfoChoices(MCC) :
           info = [f \in Sources |-> IF f = MainCC THEN a ELSE IF f = HCC THEN b
                                   ELSE IF f = MCC THEN c ELSE AbsentInfo]
    /\ cmDisk = [m \in Modules |-> "A"]
    /\ objMtime = [f \in Sources |-> 0]
    /\ ofileMtime = [t \in Targets |-> 0]
    /\ THIS_MTIME = 0
    /\ nTargets = 1
    /\ entryPoints = CxxSources
    /\ tick = 0
    /\ info0 = info
    /\ cm0 = cmDisk
    /\ InitMem
    /\ resolve = NoResolve
    /\ lookup = NoLookup
    /\ scan = NoScan
    /\ iface = NoIface

SpecInfo == InitInfo /\ [][Next]_vars

\* The Clang scanner driver, for any source and any outcome of the scanner
NextScan ==
    \/ \E f \in Sources : SourceFile_compile_clang(f)
    \/ \E f \in Sources, code \in ExitCodes, named \in SUBSET Headers,
          requires \in SUBSET Modules : clang_get_deps_call(f, code, named, requires)

SpecScan == InitMapper /\ [][NextScan]_vars

\* The header resolver: find_cpp applied to headers of several layouts, in
\* any tree that holds some of the files and directories it could probe.
LookupHeaders ==
    {FP(<<"proj", "include", "proj">>, "file", ".h"),
     FP(<<"proj", "include">>, "file", ".h"),
     FP(<<"a", "include", "b">>, "file", ".h"),
     FP(<<"proj", "Inc">>, "file", ".h"),
     FP(<<"proj", "include", "proj">>, "file", ".txt")}

LookupFiles ==
    {FP(<<"proj", "include", "proj">>, "file", ".cc"),
     FP(<<"proj", "src">>, "file", ".cc"),
     FP(<<"proj", "src">>, "file", ".cpp"),
     FP(<<"proj", "src">>, "file", ".c"),
     FP(<<"proj", "src", "proj">>, "file", ".cc"),
     FP(<<"proj", "Src">>, "file", ".c")}

LookupDirs == {<<"proj", "src", "proj">>, <<"a", "src", "b">>}

NextFindCpp == \E hfile \in LookupHeaders : HeaderDep_find_cpp_call(hfile)

InitFindCpp ==
    /\ srcMtime = [f \in Sources |-> 1]
    /\ hdrMtime = [h \in Headers |-> 1]
    /\ info = [f \in Sources |-> AbsentInfo]
    /\ cmDisk = [m \in Modules |-> "A"]
    /\ objMtime = [f \in Sources |-> 0]
    /\ ofileMtime = [t \in Targets |-> 0]
    /\ THIS_MTIME = 0
    /\ nTargets = 1
    /\ entryPoints = {}
    /\ tick = 0
    /\ info0 = info
    /\ cm0 = cmDisk
    /\ InitMem
    /\ resolve = NoResolve
    /\ \E fl \in SUBSET LookupFiles, ds \in SUBSET LookupDirs :
           lookup = [NoLookup EXCEPT !.fs = [files |-> fl, dirs |-> ds]]
    /\ scan = NoScan
    /\ iface = NoIface

SpecFindCpp == InitFindCpp /\ [][NextFindCpp]_vars

\* Module resolution: a build script that asks for the sources of modules, on
\* any disk that holds some of the files the search could find.
ResolveNames == {<<"k">>, <<"a", ":", "b">>, <<"a", ".", "b">>}

\* the two candidates of a name under a directory of the search path
Candidates(name, base) ==
    LET c == Under(base, mod2path_named(name))
        d == IF "dir" \in DOMAIN c THEN c.dir ELSE <<>>
    IN  <<c, InDir(d \o <<c.stem>>, P(c.stem, c.suffix))>>

ModuleFiles ==
    UNION {{Candidates(n, SearchPath[i])[1], Candidates(n, SearchPath[i])[2]} :
               n \in ResolveNames, i \in DOMAIN SearchPath}

NextResolve == \E name \in ResolveNames : Target_mod2src_call(name)

InitResolve ==
    /\ srcMtime = [f \in Sources |-> 1]
    /\ hdrMtime = [h \in Headers |-> 1]
    /\ info = [f \in Sources |-> AbsentInfo]
    /\ cmDisk = [m \in Modules |-> "A"]
    /\ objMtime = [f \in Sources |-> 0]
    /\ ofileMtime = [t \in Targets |-> 0]
    /\ THIS_MTIME = 0
    /\ nTargets = 1
    /\ entryPoints = {}
    /\ tick = 0
    /\ info0 = info
    /\ cm0 = cmDisk
    /\ InitMem
    /\ \E fs \in SUBSET ModuleFiles : resolve = [NoResolve EXCEPT !.fs = fs]
    /\ lookup = NoLookup
    /\ scan = NoScan
    /\ iface = NoIface

SpecResolve == InitResolve /\ [][NextResolve]_vars

\* The interface files of several modules, each module's source first met as
\* an entry point of another target or through CompiledModule.build.
NextIface ==
    \/ \E name \in IfaceNames : Target_compile_unnamed(name)
    \/ \E name \in IfaceNames : CompiledModule_build_iface(name)

SpecIface == InitMapper /\ [][NextIface]_vars

\* The writes of the JSON files, on a disk where each of them is absent or
\* complete.
InitIO ==
    /\ srcMtime = [f \in Sources |-> 1]
    /\ hdrMtime = [h \in Headers |-> 1]
    /\ info = [f \in Sources |-> AbsentInfo]
    /\ cmDisk = [m \in Modules |-> "A"]
    /\ objMtime = [f \in Sources |-> 0]
    /\ ofileMtime = [t \in Targets |-> 0]
    /\ THIS_MTIME = 0
    /\ nTargets = 1
    /\ entryPoints = CxxSources
    /\ tick = 0
    /\ info0 = info
    /\ cm0 = cmDisk
    /\ files = [f \in Sources |-> NewFile]
    /\ hdrBuilt = [h \in Headers |-> FALSE]
    /\ cmhash = [m \in Modules |-> "None"]
    /\ tgt = [t \in Targets |-> [processed_files |-> {}, objs |-> <<>>,
                                 most_recent_output_mtime |-> 0]]
    /\ stack = <<>>
    /\ running = {}
    /\ status = "ok"
    /\ error = ""
    /\ exitCode = 0
    /\ now = MaxTime + 1
    /\ compileCount = [f \in Sources |-> 0]
    /\ imported = [f \in Sources |-> {}]
    /\ compilerCode = 0
    /\ demand = NoDemand
    /\ resolve = NoResolve
    /\ lookup = NoLookup
    /\ scan = NoScan
    /\ iface = NoIface
    /\ linked = [t \in Targets |-> [called |-> FALSE, ran |-> FALSE,
                                    most_recent |-> 0, ofile |-> 0]]
    /\ fsFinal \in [JsonFiles -> {Absent, DocChunks}]
    /\ fsTmp = [p \in JsonFiles |-> Absent]
    /\ writer = Idle
    /\ batch = NoBatch
    /\ warnings = 0
    /\ wire = NoWire

SpecIO == InitIO /\ [][NextIO]_vars

----------------------------------------------------------------------------
(* Vocabulary of the properties *)

\* the files some target has demanded so far
Demanded == UNION {tgt[t].processed_files : t \in Targets}

\* f has a frame on the call stack: its build has not returned
OnStack(f) == \E i \in DOMAIN stack : stack[i].f = f

\* SourceFile.build(f) was entered and has returned
Returned(f) == files[f].processed /\ ~OnStack(f)

\* the freshness check found f deps-only: itself fresh, deps to validate
DepsOnly(f) ==
    /\ files[f].processed
    /\ files[f].up_to_date = "False"
    /\ files[f].need_recompile = "False"

\* the files the info file of f, as it was at the start, makes f depend on:
\* the companions of its recorded headers and the sources of its recorded modules
RecordedDepFiles(f) ==
    ({find_cpp(d.name) : d \in {e \in info0[f].deps : e.kind \in {"include", "file"}}}
     \cup {mod2src(d.name) : d \in {e \in info0[f].deps : e.kind = "module"}})
    \cap Sources

RECURSIVE ClosureFrom(_, _)
ClosureFrom(S, n) ==
    IF n = 0 THEN S
    ELSE ClosureFrom(S \cup UNION {RecordedDepFiles(f) : f \in S}, n - 1)

\* the dependency closure of the files demanded so far
DepClosure == ClosureFrom(Demanded, Cardinality(Sources))

\* f had no staleness cause of its own when the process started: a readable
\* info file newer than the source, the same command, every recorded header
\* older than the info file
FreshButModules(f) ==
    /\ info0[f].state = "ok"
    /\ srcMtime[f] < info0[f].mtime
    /\ info0[f].command = compiler_cmd(f)
    /\ \A d \in info0[f].deps :
           d.kind \in {"include", "file"} => hdrMtime[d.name] < info0[f].mtime

\* ... and every recorded module sha256 is the hash of the module's interface
FreshAtStart(f) ==
    /\ FreshButModules(f)
    /\ \A d \in info0[f].deps : d.kind = "module" => d.sha256 = cm0[d.name]

----------------------------------------------------------------------------
(* C1 *)

\* C1: a deps-only file F with a recorded ModuleDep whose sha256 differs from
\* the hash of the module's interface is recompiled in the same build and its
\* info file is rewritten with the new hash: once the build of F is over (it
\* returned, or an exception ended it), the compiler has run for F and F's
\* info file lists the module with its current hash.
C1_RecompiledOnHashChange ==
    \A f \in Sources :
        ( /\ DepsOnly(f)
          /\ \E d \in files[f].deps : d.kind = "module" /\ d.sha256 # cmDisk[d.name]
          /\ (Returned(f) \/ status = "crashed") )
        => /\ compileCount[f] >= 1
           /\ \A d \in files[f].deps :
                  d.kind = "module" => ModuleDep(d.name, cmDisk[d.name]) \in info[f].deps

----------------------------------------------------------------------------
(* C2 *)

\* C2 (P1, cache hit): when every file in the dependency closure of the
\* demanded files was fresh at the start (source and recorded headers older
\* than its info file, same command, recorded module hashes current), no
\* compiler has been invoked for any file.
C2_CacheHit ==
    (\A f \in DepClosure : FreshAtStart(f))
        => \A f \in Sources : compileCount[f] = 0

\* a fresh main.cc that records h.h, and the companion h.cc, were both
\* processed and returned; nothing was compiled
C2_Witness ==
    /\ \A f \in DepClosure : FreshAtStart(f)
    /\ IncludeDep(HH) \in info0[MainCC].deps
    /\ Returned(MainCC) /\ Returned(HCC)
    /\ HCC \in tgt[1].processed_files
    /\ \A f \in Sources : compileCount[f] = 0

----------------------------------------------------------------------------
(* C3 *)

\* C3: when the source of module M was recompiled and the sha256 of the
\* regenerated interface equals the one F's info file recorded for M, and F
\* has no other staleness cause, F is not recompiled.
C3_NoCascade ==
    \A f \in Sources, m \in Modules :
        ( /\ mod2src(m) \in Sources
          /\ compileCount[mod2src(m)] >= 1
          /\ objMtime[mod2src(m)] = now
          /\ ModuleDep(m, cmDisk[m]) \in info0[f].deps
          /\ FreshButModules(f) )
        => compileCount[f] = 0

\* m.cc was recompiled, main.cc recorded the regenerated hash and was
\* demanded afterwards
C3_Witness ==
    /\ compileCount[MCC] = 1
    /\ objMtime[MCC] = now
    /\ ModuleDep(<<"m">>, cmDisk[<<"m">>]) \in info0[MainCC].deps
    /\ FreshButModules(MainCC)
    /\ DepsOnly(MainCC)
    /\ compileCount[MainCC] = 0

----------------------------------------------------------------------------
(* C4 *)

\* C4 (P6): the compile driver is invoked at most once per source file in one
\* process, however often and by whichever route the file is demanded.
C4_CompiledOnce == \A f \in Sources : compileCount[f] <= 1

\* h.cc was compiled once, as the companion of h.h while main.cc was built for
\* the first target, and demanded again by the second target
C4_Witness ==
    /\ compileCount[HCC] = 1
    /\ HCC \in tgt[1].processed_files
    /\ HCC \in tgt[2].processed_files
    /\ Len(tgt[1].objs) >= 2
    /\ tgt[1].objs[1] = P("h", ".o")

----------------------------------------------------------------------------
(* C5 *)

\* C5: every module a compiled file imports had its interface sha256 computed
\* before the compiler of that file was started; so whenever the compiler of
\* F has asked for module M, CompiledModule M holds its hash.
C5_ModulesBeforeCompile ==
    \A f \in Sources : \A m \in imported[f] : cmhash[m] # "None"

----------------------------------------------------------------------------
(* C6 *)

\* C6: a compiler is only ever running for the innermost file of the walk, and
\* while the header deps found by F's compile are being built, F's compiler has
\* exited and F's info file has been written by this build.
C6_HeadersAfterCompile ==
    \A i \in DOMAIN stack :
        /\ stack[i].pc = "dialogue" => i = Len(stack)
        /\ stack[i].pc = "hdrs" =>
               /\ stack[i].f \notin running
               /\ info[stack[i].f] = OkInfo(now, compiler_cmd(stack[i].f), files[stack[i].f].deps)

\* the companion h.cc is being compiled on behalf of main.cc, whose own
\* compile found h.h
C6_Witness ==
    /\ Len(stack) = 2
    /\ stack[1].f = MainCC /\ stack[1].pc = "hdrs"
    /\ stack[2].f = HCC /\ stack[2].pc = "dialogue"
    /\ HH \in files[MainCC].header_deps

----------------------------------------------------------------------------
(* C7 *)

\* C7 (P4, atomic writes): at every instant each .info file,
\* compile_commands.json and buildvars.json is absent or holds its complete
\* document; no partly written document is visible under the final path.
C7_AtomicWrites ==
    \A p \in JsonFiles : fsFinal[p] \in {Absent, DocChunks}

----------------------------------------------------------------------------
(* C8 *)

\* the causes of a rebuild the specification lists for file f
C8_Conditions(f) ==
    \/ srcMtime[f] >= info0[f].mtime
    \/ info0[f].state \in {"absent", "corrupt"}
    \/ info0[f].command # compiler_cmd(f)
    \/ \E d \in info0[f].deps :
           d.kind \in {"include", "file"} /\ hdrMtime[d.name] >= info0[f].mtime

\* C8: check_up_to_date marks F for rebuild exactly when the source is not
\* older than the info file, or the info file is missing or unreadable, or
\* the stored command differs, or a recorded include: or file: dep is not
\* older than the info file.
C8_RebuildIff ==
    \A f \in Sources :
        files[f].processed => (files[f].need_recompile = "True" <=> C8_Conditions(f))

----------------------------------------------------------------------------
(* C9 *)

\* C9: an info file that is newer than the source but is not valid JSON makes
\* the freshness check answer rebuild; the process does not crash.
C9_CorruptInfoRebuilds ==
    \A f \in Sources :
        ( /\ info0[f].state = "corrupt"
          /\ info0[f].mtime > srcMtime[f]
          /\ files[f].processed )
        => /\ status # "crashed"
           /\ files[f].need_recompile = "True"

----------------------------------------------------------------------------
(* C10 *)

----------------------------------------------------------------------------
(* C11 *)

\* the only staleness cause of f at the start is its stored command
OnlyCommandChanged(f) ==
    /\ info0[f].state = "ok"
    /\ srcMtime[f] < info0[f].mtime
    /\ info0[f].command = OtherCmd(f)
    /\ \A d \in info0[f].deps :
           /\ d.kind \in {"include", "file"} => hdrMtime[d.name] < info0[f].mtime
           /\ d.kind = "module" => d.sha256 = cm0[d.name]
    /\ \A g \in entryPoints \ {f} : FreshAtStart(g)

\* g's info file records the interface of the module f defines with a sha256
\* that is not the one f's recompile produced
StaleConsumer(g, f) ==
    /\ ModOf(f) # NoModule
    /\ compileCount[f] >= 1 /\ Returned(f)
    /\ \E d \in info0[g].deps :
           d.kind = "module" /\ d.name = ModOf(f) /\ d.sha256 # cmDisk[d.name]

\* C11 (P2, command sensitivity): when only the compiler argument list of F
\* changed since the last build, F is recompiled once it is demanded, every
\* demanded consumer whose info file records F's interface with another
\* sha256 has been recompiled when its build is over, and no other file is
\* recompiled.
C11_CommandSensitivity ==
    \A f \in Sources :
        OnlyCommandChanged(f) =>
            /\ f \in Demanded => compileCount[f] >= 1
            /\ \A g \in Sources \ {f} :
                   IF StaleConsumer(g, f)
                   THEN (g \in Demanded /\ (Returned(g) \/ status = "crashed"))
                            => compileCount[g] >= 1
                   ELSE compileCount[g] = 0

----------------------------------------------------------------------------
(* C12 *)

\* C12: whenever CompiledModule.build has memoised a sha256 for module M, the
\* build of M's defining translation unit has returned, no compiler is
\* running for it, and the hash is that of the interface file on disk (the
\* one this build produced if the unit was recompiled).
C12_HashAfterUnit ==
    \A m \in Modules :
        cmhash[m] # "None" =>
            /\ Returned(mod2src(m))
            /\ mod2src(m) \notin running
            /\ cmhash[m] = cmDisk[m]

\* m.cc was recompiled on behalf of CompiledModule.build, produced another
\* interface than the one on disk at the start, and that one was hashed
C12_Witness ==
    /\ cmhash[<<"m">>] = "B"
    /\ cm0[<<"m">>] = "A"
    /\ compileCount[MCC] = 1
    /\ files[MCC].type = "module"
    /\ P("m", ".o") \in {tgt[1].objs[i] : i \in DOMAIN tgt[1].objs}

----------------------------------------------------------------------------
(* C13 *)

\* C13: for every file whose object file and info file both exist, the mtime
\* of the info file is >= the mtime of the object file.
C13_InfoNotOlderThanObject ==
    \A f \in Sources :
        (objMtime[f] # 0 /\ info[f].state # "absent") => info[f].mtime >= objMtime[f]

\* c.c, built by an earlier run, was recompiled by a compiler that took time,
\* and its info file was rewritten
C13_Witness ==
    /\ tick = 1
    /\ info0[CC].state = "ok"
    /\ compileCount[CC] = 1
    /\ objMtime[CC] = now
    /\ info[CC].mtime = now
    /\ now > MaxTime + 1

----------------------------------------------------------------------------
(* C14 *)

\* the protocol table of the specification
C14_Table(req) ==
    CASE req.verb = "HELLO" -> Resp("HELLO", <<"1", "buildtool.py">>)
      [] req.verb = "MODULE-REPO" -> Resp("PATHNAME", OBJDIR)
      [] req.verb = "MODULE-EXPORT" -> Resp("PATHNAME", mod2cm(req.arg))
      [] req.verb = "MODULE-COMPILED" -> Resp("OK", <<>>)
      [] req.verb = "INCLUDE-TRANSLATE" -> Resp("BOOL", <<"TRUE">>)

HasImport(reqs) == \E i \in DOMAIN reqs : reqs[i].verb = "MODULE-IMPORT"
IsRecognised(req) == req.verb \in RecognisedVerbs

\* the recognised requests of the batch were answered, each with the response
\* of the table, in request order
AnsweredByTable ==
    /\ [i \in DOMAIN batch.out |-> batch.out[i].req] = SelectSeq(batch.reqs, IsRecognised)
    /\ \A i \in DOMAIN batch.out : batch.out[i].resp = C14_Table(batch.out[i].req)
    /\ (\E i \in DOMAIN batch.reqs : IsRecognised(batch.reqs[i])) => batch.written

----------------------------------------------------------------------------
(* C15 *)

\* C15: for every MODULE-IMPORT <name> received while compiling F, the module
\* was built through CompiledModule.build, ModuleDep(name, sha256) with the
\* hash of that build is recorded on F, and the request was answered with
\* PATHNAME <interface path>.
C15_ImportBuildsThenReplies ==
    \A f \in Sources : \A m \in imported[f] :
        /\ cmhash[m] # "None"
        /\ ModuleDep(m, cmhash[m]) \in files[f].deps
        /\ \E i \in DOMAIN batch.out :
               /\ batch.out[i].req = Req("MODULE-IMPORT", m)
               /\ batch.out[i].resp = Resp("PATHNAME", mod2cm(m))

----------------------------------------------------------------------------
(* C16 *)

----------------------------------------------------------------------------
(* C17 *)

\* C17: when a compiler launched for any translation unit has exited with a
\* non-zero code c, the process has exited with code c, that file's info file
\* is as it was, no compiler is running and the target was not linked.
C17_CompilerFailureAborts ==
    compilerCode # 0 =>
        /\ status = "exited"
        /\ exitCode = compilerCode
        /\ info[Top.f] = info0[Top.f]
        /\ running = {}
        /\ ~linked[Top.t].called

----------------------------------------------------------------------------
(* C18 *)

\* C18: at every moment at most one compiler process is alive, and while one
\* is alive no step of the build starts another.
C18_OneCompilerAlive ==
    /\ [](Cardinality(running) <= 1)
    /\ [][running # {} => running' \subseteq running]_vars

\* the compiler of the companion h.cc is alive, started after the compiler of
\* main.cc, which found h.h, has exited
C18_Witness ==
    /\ running = {HCC}
    /\ compileCount[MainCC] = 1
    /\ Len(stack) = 2
    /\ stack[1].f = MainCC

----------------------------------------------------------------------------
(* C19 *)

\* the last SourceFile.get supplied a type or a module name other than the one
\* the record of its path held
Disagrees ==
    /\ demand.via = "get"
    /\ demand.old.registered
    /\ \/ demand.type # "None" /\ demand.type # demand.old.type
       \/ demand.modname # NoModule /\ demand.modname # demand.old.modname

\* C19: a SourceFile.get whose type or modname disagrees with what the record
\* of the path holds ends in an error and leaves the record as it was; and no
\* step changes the type or the module name of a record once it exists.
C19_MismatchFails ==
    /\ [](Disagrees => /\ status = "crashed"
                       /\ files[demand.path] = demand.old)
    /\ [][\A f \in Sources :
              files[f].registered =>
                  /\ files'[f].registered
                  /\ files'[f].type = files[f].type
                  /\ files'[f].modname = files[f].modname]_vars

----------------------------------------------------------------------------
(* C20 *)

\* the inference table of the specification
C20_Table(suffix) ==
    IF suffix \in {".cc", ".cpp"} THEN "c++"
    ELSE IF suffix = ".c" THEN "c"
    ELSE IF suffix \in {".s", ".S"} THEN "asm"
    ELSE "unrecognized"

\* C20: when the build script has demanded a path that had no record, without
\* a type, through SourceFile.get or Target.compile, then either the table
\* gives a type for its suffix and the path has a record of that type, or the
\* process has ended with the unrecognized-file-type error and the path has no
\* record.
C20_TypeInference ==
    (demand.via # "none" /\ demand.type = "None" /\ ~demand.old.registered) =>
        IF C20_Table(demand.path.suffix) = "unrecognized"
        THEN /\ status \in {"crashed", "exited"}
             /\ error \in {"Exception: Unrecognized file type", "exit"}
             /\ ~files[demand.path].registered
        ELSE /\ files[demand.path].registered
             /\ files[demand.path].type = C20_Table(demand.path.suffix)

----------------------------------------------------------------------------
(* C21 *)

\* the interface-file name the specification gives a module name
C21_Table(name) ==
    IF name[1] \in {"/", "./"} THEN Tail(name) \o <<".pcm">>
    ELSE name \o <<".pcm">>

\* C21: the interface-file name given in answer to MODULE-EXPORT <name> is
\* 'foo.pcm' for a system name '/foo', the path relative to the source root
\* plus '.pcm' for a user header './dir/file.h', and the name with every ':'
\* kept plus '.pcm' for a named module.
C21_InterfaceName ==
    \A i \in DOMAIN batch.out :
        batch.out[i].req.verb = "MODULE-EXPORT" =>
            batch.out[i].resp = Resp("PATHNAME", C21_Table(batch.out[i].req.arg))

----------------------------------------------------------------------------
(* C22 *)

\* the paths the specification probes for a module name, in its order: for
\* each directory of the search path, <path>.cc and then <path>/<basename>.cc
C22_Order(name) ==
    [k \in 1..(2 * Len(SearchPath)) |->
        Candidates(name, SearchPath[(k + 1) \div 2])[IF k % 2 = 1 THEN 1 ELSE 2]]

\* C22: Target.mod2src returns the first path of that order that exists; when
\* none exists the process exits with code 1 and the message lists every path
\* of the order.
C22_ModuleResolution ==
    resolve.name # NoModule =>
        LET cands == C22_Order(resolve.name)
            hits  == {k \in DOMAIN cands : cands[k] \in resolve.fs}
        IN  IF hits # {}
            THEN /\ status = "ok"
                 /\ resolve.path = cands[CHOOSE k \in hits : \A j \in hits : k <= j]
            ELSE /\ status = "exited"
                 /\ exitCode = 1
                 /\ resolve.failed = cands

----------------------------------------------------------------------------
(* C23 *)

\* the header deps of f: found by its compile when f was rebuilt, read from
\* its info file otherwise
HeaderDepsOf(f) ==
    IF files[f].need_recompile = "True" THEN files[f].header_deps
    ELSE {d.name : d \in {e \in files[f].deps : e.kind = "include"}}

InLinkList(t, f) == \E i \in DOMAIN tgt[t].objs : tgt[t].objs[i] = P(f.stem, ".o")

\* C23: when Target.compile of an entry point has returned, every companion
\* the header resolver finds for a header dep of a file processed by a target
\* has been processed by that target and its object is in the target's link
\* list.
C23_CompanionsLinked ==
    (status = "ok" /\ stack = <<>>) =>
        \A t \in Targets : \A f \in tgt[t].processed_files : \A h \in HeaderDepsOf(f) :
            find_cpp(h) # NoPath =>
                /\ find_cpp(h) \in tgt[t].processed_files
                /\ InLinkList(t, find_cpp(h))

----------------------------------------------------------------------------
(* C24 *)

HasUnknownDep(i) == \E d \in i.deps : d.kind \notin {"file", "include", "module"}

\* the freshness check of f has read the dep list of f's info file: the file
\* was older than its info file, which holds the current argument list
ReadDeps(f) ==
    /\ files[f].processed
    /\ info0[f].state = "ok"
    /\ srcMtime[f] < info0[f].mtime
    /\ info0[f].command = compiler_cmd(f)

RECURSIVE C25_Responses(_)
C25_Responses(reqs) ==
    IF reqs = <<>> THEN <<>>
    ELSE IF Head(reqs).verb \in RecognisedVerbs \cup {"MODULE-IMPORT"}
    THEN <<[resp |-> IF Head(reqs).verb = "MODULE-IMPORT"
                     THEN Resp("PATHNAME", mod2cm(Head(reqs).arg))
                     ELSE MapperResponse(Head(reqs))]>> \o C25_Responses(Tail(reqs))
    ELSE C25_Responses(Tail(reqs))

\* C25: while the driver reads lines ending in ';' it has written nothing,
\* and once it has read the line that ends the batch it has written, in one
\* flush, the responses of the whole batch in request order, joined by " ;\n"
\* and ended by one "\n".
C25_BatchFraming ==
    /\ wire.pending # <<>> => wire.sent = <<>>
    /\ (wire.pending = <<>> /\ ~wire.eof /\ batch.reqs # <<>>)
          => wire.sent = Flush(C25_Responses(batch.reqs))

(* C26 *)
\* C26: once the driver has read EOF, at a batch boundary or in the middle
\* of a batch, it is still running, and its next step is to close the pipes
\* and wait for the compiler: it reads no further line.
C26_EOFTerminates ==
    /\ [](wire.eof => status = "ok")
    /\ [][wire.eof => (wire' = NoWire /\ running' = running \ {Top.f})]_vars

(* C27 *)
\* how many times the object path of f is in the link list of target t
LinkCount(t, f) ==
    Cardinality({i \in DOMAIN tgt[t].objs : tgt[t].objs[i] = P(f.stem, ".o")})

\* Target.compile(f) has been called on target t and has returned
Compiled(t, f) ==
    /\ status = "ok"
    /\ f \in tgt[t].processed_files
    /\ \A i \in DOMAIN stack : ~(stack[i].t = t /\ stack[i].f = f)

\* C27: after Target.compile returns for a file of a non-header type, its
\* object path is in the target's link list exactly once, whatever the
\* freshness outcome; the object path of a file of a header type (system,
\* user or generated header) is never in the link list.
C27_LinkList ==
    \A t \in Targets, f \in Sources :
        /\ (Compiled(t, f) /\ files[f].type \notin HeaderTypes) => LinkCount(t, f) = 1
        /\ (files[f].registered /\ files[f].type \in HeaderTypes) => LinkCount(t, f) = 0

(* C28 *)
\* f was rebuilt by this process: its info file was written after the start
Rebuilt(f) == info[f].state = "ok" /\ info[f].mtime > MaxTime

\* C28: when a file of any source type is rebuilt, the dep list written to
\* its new info file holds exactly the deps discovered by this compile (the
\* headers the compiler named); the deps read from the old info file are
\* discarded.
C28_DepsRediscovered ==
    \A f \in Sources :
        Rebuilt(f) => info[f].deps = {IncludeDep(x) : x \in files[f].header_deps}

(* C29 *)
\* the header of the canonical layout and the implementation files the
\* layout pairs it with, in the order they are tried
C29_Header == FP(<<"proj", "include", "proj">>, "file", ".h")
C29_Targets == <<FP(<<"proj", "src">>, "file", ".cc"), FP(<<"proj", "src">>, "file", ".cpp"),
                 FP(<<"proj", "src">>, "file", ".c")>>

\* C29: in every file tree, for the header proj/include/proj/file.h with no
\* sibling implementation file, find_cpp returns proj/src/file.cc (or .cpp,
\* .c, the first that exists) whenever that file exists, also when a
\* directory proj/src/proj exists.
C29_CanonicalLayout ==
    LET sibling == \E x \in {".cc", ".cpp", ".c"} :
                       [C29_Header EXCEPT !.suffix = x] \in lookup.fs.files
        hits == {k \in DOMAIN C29_Targets : C29_Targets[k] \in lookup.fs.files}
    IN  (lookup.hfile = C29_Header /\ ~sibling /\ hits # {})
            => lookup.cpp = C29_Targets[CHOOSE k \in hits : \A j \in hits : k <= j]

(* C30 *)
\* C30: the scanner is run at most twice per file; when its first run has
\* failed, the call goes on to a second run with every header the
\* diagnostics named built as a header unit, and it ends by returning or by
\* the abort of a failed second run, never by an exception.
C30_ScannerRecovery ==
    /\ scan.runs <= 2
    /\ (scan.runs > 0 /\ scan.code # 0) =>
           /\ scan.runs = 2
           /\ scan.built = scan.named
           /\ status \in {"ok", "exited"}

(* C31 *)
\* C31: for every batch of n >= 1 requests the driver has handled, whatever
\* its verbs, it has written exactly n responses, the i-th answering the
\* i-th request.
C31_OneResponsePerRequest ==
    batch.reqs # <<>> =>
        /\ batch.written
        /\ Len(batch.out) = Len(batch.reqs)
        /\ \A i \in DOMAIN batch.reqs : batch.out[i].req = batch.reqs[i]

(* C32 *)
\* the record of f as a new process registers it, with the disk as it is
NextBuildRecord(f) ==
    [NewFile EXCEPT !.registered = TRUE, !.type = files[f].type,
                    !.modname = files[f].modname, !.mtime = srcMtime[f]]

\* C32: when a compiler has ended with a non-zero code, the build has
\* stopped at that compile, the info file of the file being compiled is
\* exactly as it was when the build started, and the freshness check of a
\* next build on the same disk marks the file for rebuild again.
C32_FailureKeepsStale ==
    compilerCode # 0 =>
        /\ status = "exited"
        /\ stack # <<>>
        /\ Top.pc \in {"dialogue", "shell"}
        /\ info[Top.f] = info0[Top.f]
        /\ check_up_to_date(Top.f, NextBuildRecord(Top.f)).err = ""
        /\ check_up_to_date(Top.f, NextBuildRecord(Top.f)).file.need_recompile = "True"

\* a compile failed on a file that had an info file, newer than the source
C32_Witness ==
    /\ compilerCode # 0
    /\ stack # <<>>
    /\ info0[Top.f].state = "ok"
    /\ info0[Top.f].mtime > srcMtime[Top.f]

(* C33 *)
\* the sources one step from f in the graph: the companions of its header
\* deps and the sources of the modules it imports or records
C33_Step(f) ==
    {find_cpp(h) : h \in {x \in HeaderDepsOf(f) : find_cpp(x) # NoPath}}
    \cup {mod2src(m) : m \in imported[f]}
    \cup {mod2src(d.name) : d \in {e \in files[f].deps : e.kind = "module"}}

RECURSIVE C33_Reach(_, _)
C33_Reach(S, n) ==
    IF n = 0 THEN S ELSE C33_Reach(S \cup UNION {C33_Step(f) : f \in S}, n - 1)

\* C33: when the targets built so far are done, the link list of each holds
\* the object of every source reachable from the entry points it compiled,
\* whatever the targets before it had already processed.
C33_LinkListPerTarget ==
    (status = "ok" /\ stack = <<>>) =>
        \A t \in Targets :
            \A g \in C33_Reach(tgt[t].processed_files \cap entryPoints, Cardinality(Sources)) :
                InLinkList(t, g)

(* C34 *)
\* C34: when CompiledModule.build is asked for a module whose source
\* resolves and whose source file was already processed, the demand does
\* not fail: once the walk is back at the build script the build is still
\* running and a sha256 is memoised for the module.
C34_ModuleDemandReturns ==
    (demand.via = "module" /\ demand.path # NoPath /\ demand.old.processed /\ stack = <<>>) =>
        /\ status = "ok"
        /\ cmhash[demand.modname] # "None"

(* C35 *)
\* C35: for every module name, the file CompiledModule.build hashes (the
\* cmpath of the source file record, which is also the path given to
\* importers) is the interface file named in reply to MODULE-EXPORT,
\* whether the record was first registered with the module name or without.
C35_PathAgreement ==
    \A n \in IfaceNames :
        iface[n].hashed # <<>> =>
            /\ iface[n].hashed = iface[n].exported
            /\ iface[n].cmpath = iface[n].exported

(* C36 *)
\* a dep of a file has been built: the header's HeaderDep.build has run, the
\* module has its hash
DepBuilt(d) ==
    IF d.kind = "include" THEN hdrBuilt[d.name]
    ELSE IF d.kind = "module" THEN cmhash[d.name] # "None"
    ELSE FALSE

\* C36: a processed file is up to date only if its info record lists no
\* header and no module dep; a processed file that has recorded deps and is
\* not rebuilt has its deps built: the descent does not fail, and when the
\* file is done every recorded dep has been built.
C36_SkipIsSafe ==
    \A f \in Sources :
        files[f].processed =>
            /\ files[f].up_to_date = "True" =>
                   \A d \in info[f].deps : d.kind \notin {"include", "module"}
            /\ (files[f].up_to_date = "False" /\ files[f].need_recompile = "False") =>
                   /\ ~(status = "crashed" /\ stack # <<>> /\ Top.f = f /\ Top.pc = "deps")
                   /\ Returned(f) => \A d \in files[f].deps : DepBuilt(d)

====
